---- MODULE Spec2Model ----
(***************************************************************************)
(* compose-validator: the compliance checker (internal/validator) and the  *)
(* rewriter (internal/fixer) of Docker Compose service definitions.        *)
(*                                                                         *)
(* Go strings are modelled as tuples of one-character strings, so that     *)
(* strings.Index, strings.Split, strings.ToLower and the byte-wise `<` of  *)
(* the source are computed, not assumed.  Field names are TLA+ strings.    *)
(***************************************************************************)
EXTENDS Integers, Sequences, FiniteSets, TLC

VARIABLES doc, cfg, orig, validation, fixres, prevDoc, nfix, call, disk, cli

vars == <<doc, cfg, orig, validation, fixres, prevDoc, nfix, call, disk, cli>>

(***************************************************************************)
(* Bounds                                                                  *)
(***************************************************************************)
MaxFields == 3

MaxFixes == 2

MaxLen == 3

(***************************************************************************)
(* Go strings                                                              *)
(***************************************************************************)
\* the byte value of each character used by the model (Go compares strings
\* byte-wise)
Code ==
  ("/" :> 47) @@ ("1" :> 49) @@ ("2" :> 50) @@ ("3" :> 51) @@ (":" :> 58) @@
  ("=" :> 61) @@ ("A" :> 65) @@ ("B" :> 66) @@ ("M" :> 77) @@ ("Z" :> 90) @@
  ("a" :> 97) @@ ("b" :> 98) @@ ("c" :> 99) @@ ("m" :> 109) @@ ("z" :> 122)

\* strings.ToLower on one character
LowerChar(c) ==
  CASE c = "A" -> "a"
    [] c = "B" -> "b"
    [] c = "M" -> "m"
    [] c = "Z" -> "z"
    [] OTHER -> c

\* strings.ToLower
ToLower(s) == [i \in 1..Len(s) |-> LowerChar(s[i])]

Min(a, b) == IF a < b THEN a ELSE b

\* Go's s < t on strings: byte-wise lexicographic
StrLess(s, t) ==
  \E i \in 1..(Min(Len(s), Len(t)) + 1) :
     /\ \A j \in 1..(i - 1) : s[j] = t[j]
     /\ \/ i > Len(s) /\ i <= Len(t)
        \/ i <= Len(s) /\ i <= Len(t) /\ Code[s[i]] < Code[t[i]]

\* strings.Index(s, c): 0-based index of the first c in s, -1 when absent
StrIndex(s, c) ==
  IF \E i \in 1..Len(s) : s[i] = c
    THEN (CHOOSE i \in 1..Len(s) : s[i] = c /\ \A j \in 1..(i - 1) : s[j] # c) - 1
    ELSE -1

(***************************************************************************)
(* Values.  An entry of a list is a string, a mapping (modelled by the     *)
(* sequence of its keys, at most one here) or a number.  A field value is  *)
(* a scalar, a list of entries or a mapping (sequence of key/value pairs   *)
(* in source order; once decoded into a Go map that order is lost and      *)
(* every `range` visits the keys in an order of its own).                  *)
(***************************************************************************)
StrEntry(s) == [t |-> "str", s |-> s, m |-> <<>>, n |-> 0]

MapEntry(keys) == [t |-> "map", s |-> <<>>, m |-> keys, n |-> 0]

NumEntry(n) == [t |-> "num", s |-> <<>>, m |-> <<>>, n |-> n]

Scalar(n) == [k |-> "scalar", items |-> <<>>, mp |-> <<>>, sv |-> n]

List(items) == [k |-> "list", items |-> items, mp |-> <<>>, sv |-> 0]

Mapping(pairs) == [k |-> "map", items |-> <<>>, mp |-> pairs, sv |-> 0]

\* all orders in which the elements of sequence s can be visited
Perms(s) ==
  { [i \in 1..Len(s) |-> s[p[i]]] :
      p \in { q \in [1..Len(s) -> 1..Len(s)] :
                \A i, j \in 1..Len(s) : q[i] = q[j] => i = j } }

MapKeys(v) == [i \in 1..Len(v.mp) |-> v.mp[i].key]

(***************************************************************************)
(* Sort keys: validator.go and fixer.go each have their own copy           *)
(***************************************************************************)
\* validator.extractEnvKey
VExtractEnvKey(item) ==
  CASE item.t = "str" ->
         LET idx == StrIndex(item.s, "=")
         IN  IF idx > 0 THEN SubSeq(item.s, 1, idx) ELSE item.s
    [] item.t = "map" ->
         IF Len(item.m) > 0 THEN item.m[1] ELSE <<>>
    [] OTHER -> <<>>

\* validator.extractVolumeKey: strings.Split(v, ":")[0]
VExtractVolumeKey(item) ==
  CASE item.t = "str" ->
         LET idx == StrIndex(item.s, ":")
         IN  IF idx >= 0 THEN SubSeq(item.s, 1, idx) ELSE item.s
    [] OTHER -> <<>>

\* validator.extractLabelKey
VExtractLabelKey(item) ==
  CASE item.t = "str" ->
         LET idx == StrIndex(item.s, "=")
         IN  IF idx > 0 THEN SubSeq(item.s, 1, idx) ELSE item.s
    [] item.t = "map" ->
         IF Len(item.m) > 0 THEN item.m[1] ELSE <<>>
    [] OTHER -> <<>>

\* fixer.extractEnvKey
extractEnvKey(item) ==
  CASE item.t = "str" ->
         LET idx == StrIndex(item.s, "=")
         IN  IF idx > 0 THEN SubSeq(item.s, 1, idx) ELSE item.s
    [] item.t = "map" ->
         IF Len(item.m) > 0 THEN item.m[1] ELSE <<>>
    [] OTHER -> <<>>

\* fixer.extractVolumeKey: strings.Split(v, ":")[0]
extractVolumeKey(item) ==
  CASE item.t = "str" ->
         LET idx == StrIndex(item.s, ":")
         IN  IF idx >= 0 THEN SubSeq(item.s, 1, idx) ELSE item.s
    [] OTHER -> <<>>

\* extractLabelKey with `idx >= 0` in place of `idx > 0`
extractLabelKey_FromZero(item) ==
  CASE item.t = "str" ->
         LET idx == StrIndex(item.s, "=")
         IN  IF idx >= 0 THEN SubSeq(item.s, 1, idx) ELSE item.s
    [] item.t = "map" ->
         IF Len(item.m) > 0 THEN item.m[1] ELSE <<>>
    [] OTHER -> <<>>

\* fixer.extractLabelKey
extractLabelKey(item) ==
  CASE item.t = "str" ->
         LET idx == StrIndex(item.s, "=")
         IN  IF idx > 0 THEN SubSeq(item.s, 1, idx) ELSE item.s
    [] item.t = "map" ->
         IF Len(item.m) > 0 THEN item.m[1] ELSE <<>>
    [] OTHER -> <<>>

(***************************************************************************)
(* Policy (internal/config)                                                *)
(***************************************************************************)
DefaultFieldOrder ==
  << "container_name", "image", "build", "user", "environment", "env_file",
     "networks", "network_mode", "ports", "devices", "healthcheck", "restart",
     "cap_add", "privileged", "extra_hosts", "volumes", "labels" >>

NewDefaultConfig ==
  [ FieldOrder |-> DefaultFieldOrder,
    Alphabetization |-> [Environment |-> TRUE, Volumes |-> TRUE, Labels |-> TRUE],
    Strict |-> FALSE,
    Exclude |-> << >>,
    ServiceOverrides |-> << >> ]

\* a GetFieldOrder that returns a registered override even when it is empty
GetFieldOrder_AnyOverride(c, serviceName) ==
  IF serviceName \in DOMAIN c.ServiceOverrides
    THEN c.ServiceOverrides[serviceName]
    ELSE c.FieldOrder

\* Config.GetFieldOrder; ServiceOverrides is a function from service names
\* to override orders
GetFieldOrder(c, serviceName) ==
  IF serviceName \in DOMAIN c.ServiceOverrides /\ Len(c.ServiceOverrides[serviceName]) > 0
    THEN c.ServiceOverrides[serviceName]
    ELSE c.FieldOrder

\* a ShouldAlphabetize that ignores the flags of the policy
ShouldAlphabetize_Always(c, field) ==
  field \in { "environment", "volumes", "labels" }

\* filepath.Match(pattern, name) for a pattern and a name without a
\* separator: `*` and `**` match every name, `*.yml` the names that end in
\* .yml, any other pattern of the model the name equal to it
MatchName(glob, name) ==
  \/ glob \in { "*", "**" }
  \/ glob = "*.yml" /\ name \in { "a.yml", "b.yml" }
  \/ glob = name

\* filepath.Match(pattern, path); globs and comps are the parts of the
\* pattern and of the path between separators: no wildcard matches a
\* separator, so the parts match one by one
Match(globs, comps) ==
  /\ Len(globs) = Len(comps)
  /\ \A i \in 1..Len(globs) : MatchName(globs[i], comps[i])

\* an exclusion pattern: recursive when it starts with `**/`; globs are
\* the parts that follow; tail is "/**" when the pattern ends with it
ExcludePattern(recursive, globs, tail) ==
  [recursive |-> recursive, globs |-> globs, tail |-> tail]

\* the parts of a pattern that does not start with `**/`
WholePattern(p) == IF p.tail = "/**" THEN Append(p.globs, "**") ELSE p.globs

\* Config.IsExcluded, the body of the loop for one pattern, without the
\* match against the base name of the path
MatchesPattern_NoBase(p, path) ==
  IF p.recursive
    THEN \E i \in 1..Len(path) : Match(p.globs, << path[i] >>)
    ELSE Match(WholePattern(p), path)

\* Config.IsExcluded, the body of the loop for one pattern; path is the
\* sequence of the components of the path
MatchesPattern(p, path) ==
  IF p.recursive
    THEN \E i \in 1..Len(path) : Match(p.globs, << path[i] >>)
    ELSE \/ Match(WholePattern(p), path)
         \/ Match(WholePattern(p), << path[Len(path)] >>)

RECURSIVE ExcludedFrom(_, _, _)
\* Config.IsExcluded, the loop over c.Exclude from pattern k on
ExcludedFrom(exclude, path, k) ==
  IF k > Len(exclude) THEN FALSE
  ELSE IF MatchesPattern(exclude[k], path) THEN TRUE
  ELSE ExcludedFrom(exclude, path, k + 1)

\* Config.IsExcluded
IsExcluded(c, path) == ExcludedFrom(c.Exclude, path, 1)

\* Config.ShouldAlphabetize
ShouldAlphabetize(c, field) ==
  CASE field = "environment" -> c.Alphabetization.Environment
    [] field = "volumes" -> c.Alphabetization.Volumes
    [] field = "labels" -> c.Alphabetization.Labels
    [] OTHER -> FALSE

(***************************************************************************)
(* Checker: alphabetization (validator.go)                                 *)
(***************************************************************************)
Swap(seq, i, j) == [seq EXCEPT ![i] = seq[j], ![j] = seq[i]]

RECURSIVE VSortKeys(_, _, _)
\* the exchange sort of isAlphabetized / isMapAlphabetized: for i, for j > i,
\* swap when ToLower(sortedKeys[i]) > ToLower(sortedKeys[j])
VSortKeys(ks, i, j) ==
  IF i >= Len(ks) THEN ks
  ELSE IF j > Len(ks) THEN VSortKeys(ks, i + 1, i + 2)
  ELSE VSortKeys(IF StrLess(ToLower(ks[j]), ToLower(ks[i])) THEN Swap(ks, i, j) ELSE ks,
                 i, j + 1)

\* the key extractor that validateAlphabetization passes for each field
VKeyOf(field, item) ==
  CASE field = "environment" -> VExtractEnvKey(item)
    [] field = "volumes" -> VExtractVolumeKey(item)
    [] OTHER -> VExtractLabelKey(item)

\* isAlphabetized comparing the keys without strings.ToLower
isAlphabetized_CaseSensitive(items, field) ==
  IF Len(items) < 2 THEN TRUE
  ELSE LET keys == [i \in 1..Len(items) |-> VKeyOf(field, items[i])]
       IN  \A i \in 1..(Len(keys) - 1) : ~StrLess(keys[i + 1], keys[i])

\* validator.isAlphabetized(items, keyExtractor)
isAlphabetized(items, field) ==
  IF Len(items) < 2 THEN TRUE
  ELSE LET keys == [i \in 1..Len(items) |-> VKeyOf(field, items[i])]
           sortedKeys == VSortKeys(keys, 1, 2)
       IN  \A i \in 1..Len(keys) : keys[i] = sortedKeys[i]

\* validator.isMapAlphabetized(m); keys is the order in which `range m`
\* happens to visit the keys of the Go map
isMapAlphabetized(keys) ==
  IF Len(keys) < 2 THEN TRUE
  ELSE LET sortedKeys == VSortKeys(keys, 1, 2)
       IN  \A i \in 1..Len(keys) : keys[i] = sortedKeys[i]

(***************************************************************************)
(* Rewriter: alphabetization (fixer.go)                                    *)
(***************************************************************************)
\* the key the less function of each sort.Slice call compares ("key": the
\* map case sorts the key strings themselves)
KeyOf(mode, item) ==
  CASE mode = "environment" -> extractEnvKey(item)
    [] mode = "volumes" -> extractVolumeKey(item)
    [] mode = "labels" -> extractLabelKey(item)
    [] OTHER -> item

SliceLess(mode, a, b) == StrLess(ToLower(KeyOf(mode, a)), ToLower(KeyOf(mode, b)))

RECURSIVE InsertDown(_, _, _)
InsertDown(mode, data, j) ==
  IF j > 1 /\ SliceLess(mode, data[j], data[j - 1])
    THEN InsertDown(mode, Swap(data, j, j - 1), j - 1)
    ELSE data

RECURSIVE InsertionSort(_, _, _)
InsertionSort(mode, data, i) ==
  IF i > Len(data) THEN data
  ELSE InsertionSort(mode, InsertDown(mode, data, i), i + 1)

\* sort.Slice(sorted, less): the Go runtime sorts a slice of fewer than 12
\* elements by insertion sort
SortSlice(mode, data) == InsertionSort(mode, data, 2)

\* the orders that differ from s by one exchange of two neighbours whose
\* keys are equal case-insensitively
TieSwaps(mode, s) ==
  { s } \cup { Swap(s, i, i + 1) : i \in { j \in 1..(Len(s) - 1) :
                                             /\ ~SliceLess(mode, s[j], s[j + 1])
                                             /\ ~SliceLess(mode, s[j + 1], s[j]) } }

\* the outcomes of sort.Slice(sorted, less): sort.Slice is not a stable
\* sort; the Go runtime sorts a slice of at most 12 elements by insertion
\* sort, and a longer one by a quicksort that can leave entries with equal
\* keys in either order
SortSliceOutcomes(mode, data) ==
  IF Len(data) <= 12 THEN { SortSlice(mode, data) }
  ELSE TieSwaps(mode, SortSlice(mode, data))

\* `v[i] != sorted[i]` on interface values: comparing two values whose
\* dynamic type is map[string]interface{} panics at run time
ComparePanics(a, b) == a.t = "map" /\ b.t = "map"

RECURSIVE CompareLoop(_, _, _)
\* `for i := range v { if v[i] != sorted[i] { return sorted, true } }`: the
\* loop stops at the first index where the comparison panics or differs
CompareLoop(v, sorted, i) ==
  IF i > Len(v) THEN "same"
  ELSE IF ComparePanics(v[i], sorted[i]) THEN "panic"
  ELSE IF v[i] # sorted[i] THEN "changed"
  ELSE CompareLoop(v, sorted, i + 1)

\* what the list case returns once the copy is sorted
ListOutcome(value, sorted, outcome) ==
  CASE outcome = "panic" -> [val |-> value, changed |-> FALSE, panic |-> TRUE]
    [] outcome = "changed" -> [val |-> List(sorted), changed |-> TRUE, panic |-> FALSE]
    [] OTHER -> [val |-> value, changed |-> FALSE, panic |-> FALSE]

CompareSorted(value, sorted) ==
  ListOutcome(value, sorted, CompareLoop(value.items, sorted, 1))

\* the list case of alphabetizeEnvironment / alphabetizeVolumes /
\* alphabetizeLabels
alphabetizeList(mode, value) ==
  IF Len(value.items) < 2
    THEN [val |-> value, changed |-> FALSE, panic |-> FALSE]
    ELSE CompareSorted(value, SortSlice(mode, value.items))

\* the map case of alphabetizeEnvironment / alphabetizeLabels; keys is the
\* order in which `range v` visits the keys
OrderedMap(value, keys, sortedKeys) ==
  LET valueOf(key) == (CHOOSE i \in 1..Len(value.mp) : value.mp[i].key = key)
  IN  IF \A i \in 1..Len(keys) : keys[i] = sortedKeys[i]
        THEN [val |-> value, changed |-> FALSE, panic |-> FALSE]
        ELSE [val |-> Mapping([i \in 1..Len(sortedKeys) |-> value.mp[valueOf(sortedKeys[i])]]),
              changed |-> TRUE, panic |-> FALSE]

alphabetizeMap(value, keys) ==
  IF Len(keys) < 2
    THEN [val |-> value, changed |-> FALSE, panic |-> FALSE]
    ELSE OrderedMap(value, keys, SortSlice("key", keys))

alphabetizeEnvironment(value, keys) ==
  CASE value.k = "list" -> alphabetizeList("environment", value)
    [] value.k = "map" -> alphabetizeMap(value, keys)
    [] OTHER -> [val |-> value, changed |-> FALSE, panic |-> FALSE]

alphabetizeVolumes(value) ==
  CASE value.k = "list" -> alphabetizeList("volumes", value)
    [] OTHER -> [val |-> value, changed |-> FALSE, panic |-> FALSE]

alphabetizeLabels(value, keys) ==
  CASE value.k = "list" -> alphabetizeList("labels", value)
    [] value.k = "map" -> alphabetizeMap(value, keys)
    [] OTHER -> [val |-> value, changed |-> FALSE, panic |-> FALSE]

\* fixer.alphabetizeField
alphabetizeField(field, value, c, keys) ==
  IF ~ShouldAlphabetize(c, field)
    THEN [val |-> value, changed |-> FALSE, panic |-> FALSE]
  ELSE CASE field = "environment" -> alphabetizeEnvironment(value, keys)
         [] field = "volumes" -> alphabetizeVolumes(value)
         [] field = "labels" -> alphabetizeLabels(value, keys)
         [] OTHER -> [val |-> value, changed |-> FALSE, panic |-> FALSE]

(***************************************************************************)
(* Document model adapter (internal/parser)                                *)
(*                                                                         *)
(* A document holds one service: its name and its fields, in declaration   *)
(* order, as [name, val] pairs.                                            *)
(***************************************************************************)
FieldNames(fields) == [i \in 1..Len(fields) |-> fields[i].name]

InSeq(x, seq) == \E i \in 1..Len(seq) : seq[i] = x

\* the last value declared for a field name
ValueOf(fields, name) ==
  fields[CHOOSE i \in 1..Len(fields) :
           fields[i].name = name /\ \A j \in (i + 1)..Len(fields) : fields[j].name # name].val

\* a GetService that records the field names in reverse order
GetService_Reversed(d) ==
  [ Name |-> d.name,
    FieldOrder |-> [i \in 1..Len(d.fields) |-> d.fields[Len(d.fields) + 1 - i].name],
    Config |-> [n \in { d.fields[i].name : i \in 1..Len(d.fields) } |-> ValueOf(d.fields, n)] ]

\* ComposeFile.GetServices, for the service of the document: FieldOrder is
\* the declaration order, Config the decoded value of every field
GetService(d) ==
  [ Name |-> d.name,
    FieldOrder |-> FieldNames(d.fields),
    Config |-> [n \in { d.fields[i].name : i \in 1..Len(d.fields) } |-> ValueOf(d.fields, n)] ]

(***************************************************************************)
(* Checker (validator.go)                                                  *)
(***************************************************************************)
\* validator.isInFieldOrder
isInFieldOrder(field, fieldOrder) == InSeq(field, fieldOrder)

Indices(seq) == [i \in 1..Len(seq) |-> i]

OrderViolation(serviceName, actual, expected) ==
  [ Type |-> "order", Service |-> serviceName, Field |-> actual,
    Message |-> "out of order", Expected |-> expected, Actual |-> actual ]

StrictViolation(serviceName, field) ==
  [ Type |-> "order", Service |-> serviceName, Field |-> field,
    Message |-> "not allowed in strict mode", Expected |-> "", Actual |-> "" ]

AlphaViolation(serviceName, field) ==
  [ Type |-> "alphabetization", Service |-> serviceName, Field |-> field,
    Message |-> "not alphabetized", Expected |-> "", Actual |-> "" ]

\* validateFieldOrder comparing against the whole canonical order, not only
\* the fields the service declares
validateFieldOrder_Unfiltered(serviceName, service, fieldOrder, c) ==
  LET actualFields == SelectSeq(service.FieldOrder, LAMBDA f : isInFieldOrder(f, fieldOrder))
      expectedFields == fieldOrder
      bad == SelectSeq(Indices(actualFields),
                       LAMBDA i : i <= Len(expectedFields) /\ actualFields[i] # expectedFields[i])
      positional == [k \in 1..Len(bad) |->
                       OrderViolation(serviceName, actualFields[bad[k]], expectedFields[bad[k]])]
      extra == SelectSeq(service.FieldOrder, LAMBDA f : ~isInFieldOrder(f, fieldOrder))
      strict == [k \in 1..Len(extra) |-> StrictViolation(serviceName, extra[k])]
  IN  IF c.Strict THEN positional \o strict ELSE positional

\* validateFieldOrder reporting the unknown fields whatever c.Strict is
validateFieldOrder_IgnoresStrict(serviceName, service, fieldOrder, c) ==
  LET actualFields == SelectSeq(service.FieldOrder, LAMBDA f : isInFieldOrder(f, fieldOrder))
      expectedFields == SelectSeq(fieldOrder, LAMBDA f : f \in DOMAIN service.Config)
      bad == SelectSeq(Indices(actualFields),
                       LAMBDA i : i <= Len(expectedFields) /\ actualFields[i] # expectedFields[i])
      positional == [k \in 1..Len(bad) |->
                       OrderViolation(serviceName, actualFields[bad[k]], expectedFields[bad[k]])]
      extra == SelectSeq(service.FieldOrder, LAMBDA f : ~isInFieldOrder(f, fieldOrder))
      strict == [k \in 1..Len(extra) |-> StrictViolation(serviceName, extra[k])]
  IN  positional \o strict

\* validator.validateFieldOrder
validateFieldOrder(serviceName, service, fieldOrder, c) ==
  LET actualFields == SelectSeq(service.FieldOrder, LAMBDA f : isInFieldOrder(f, fieldOrder))
      expectedFields == SelectSeq(fieldOrder, LAMBDA f : f \in DOMAIN service.Config)
      bad == SelectSeq(Indices(actualFields),
                       LAMBDA i : i <= Len(expectedFields) /\ actualFields[i] # expectedFields[i])
      positional == [k \in 1..Len(bad) |->
                       OrderViolation(serviceName, actualFields[bad[k]], expectedFields[bad[k]])]
      extra == SelectSeq(service.FieldOrder, LAMBDA f : ~isInFieldOrder(f, fieldOrder))
      strict == [k \in 1..Len(extra) |-> StrictViolation(serviceName, extra[k])]
  IN  IF c.Strict THEN positional \o strict ELSE positional

\* one special field of validateAlphabetization; keys is the order in which
\* the range over a mapping value visits its keys
validateSpecial(serviceName, service, c, field, keys) ==
  IF ShouldAlphabetize(c, field) /\ field \in DOMAIN service.Config
    THEN LET v == service.Config[field]
         IN  CASE v.k = "list" ->
                    IF ~isAlphabetized(v.items, field)
                      THEN << AlphaViolation(serviceName, field) >> ELSE << >>
               [] v.k = "map" /\ field # "volumes" ->
                    IF ~isMapAlphabetized(keys)
                      THEN << AlphaViolation(serviceName, field) >> ELSE << >>
               [] OTHER -> << >>
    ELSE << >>

\* validator.validateAlphabetization
validateAlphabetization(serviceName, service, c, it) ==
  validateSpecial(serviceName, service, c, "environment", it.env)
    \o validateSpecial(serviceName, service, c, "volumes", << >>)
    \o validateSpecial(serviceName, service, c, "labels", it.lab)

\* validator.Validate on the service of the document
Validate(d, c, it) ==
  LET service == GetService(d)
      fieldOrder == GetFieldOrder(c, service.Name)
  IN  validateFieldOrder(service.Name, service, fieldOrder, c)
        \o validateAlphabetization(service.Name, service, c, it)

(***************************************************************************)
(* Rewriter (fixer.go)                                                     *)
(***************************************************************************)
\* fixer.getFieldIndex (0-based, -1 when absent)
getFieldIndex(field, fieldOrder) ==
  IF InSeq(field, fieldOrder)
    THEN (CHOOSE i \in 1..Len(fieldOrder) :
            fieldOrder[i] = field /\ \A j \in 1..(i - 1) : fieldOrder[j] # field) - 1
    ELSE -1

RECURSIVE OrderScan(_, _, _, _)
OrderScan(visit, fieldOrder, i, lastIndex) ==
  IF i > Len(visit) THEN TRUE
  ELSE LET idx == getFieldIndex(visit[i], fieldOrder)
       IN  IF idx >= 0
             THEN IF idx < lastIndex THEN FALSE
                  ELSE OrderScan(visit, fieldOrder, i + 1, idx)
             ELSE OrderScan(visit, fieldOrder, i + 1, lastIndex)

\* fixer.isFieldOrderCorrect; visit is the order in which `range svc` visits
\* the fields of the Go map
isFieldOrderCorrect(visit, fieldOrder) == OrderScan(visit, fieldOrder, 1, -1)

Change(name, field, kind) == [Service |-> name, Field |-> field, Kind |-> kind]

\* the iteration-order argument of a field's alphabetization
KeysFor(field, it) ==
  CASE field = "environment" -> it.env
    [] field = "labels" -> it.lab
    [] OTHER -> << >>

\* one pass of the loop body: r is what alphabetizeField returned for field
StoreField(name, field, acc, r) ==
  [ ordered |-> acc.ordered @@ (field :> r.val),
    changes |-> IF r.changed
                  THEN Append(acc.changes, Change(name, field, "alphabetized"))
                  ELSE acc.changes,
    panic |-> r.panic ]

RECURSIVE FixFields(_, _, _, _, _, _)
\* the body shared by the two loops of fixService: alphabetize each visited
\* field that svc holds, log the change, store the value in ordered
FixFields(name, visit, svc, c, it, acc) ==
  IF visit = << >> \/ acc.panic THEN acc
  ELSE IF Head(visit) \in DOMAIN svc /\ Head(visit) \notin DOMAIN acc.ordered
    THEN FixFields(name, Tail(visit), svc, c, it,
           StoreField(name, Head(visit), acc,
             alphabetizeField(Head(visit), svc[Head(visit)], c, KeysFor(Head(visit), it))))
    ELSE FixFields(name, Tail(visit), svc, c, it, acc)

\* the end of fixService: loops is what the two loops left (ordered, the
\* changes, whether a comparison panicked), orderOk what isFieldOrderCorrect
\* answered; ordered is copied back to svc
ServiceOutcome(name, svc, loops, orderOk) ==
  LET changes == IF orderOk THEN loops.changes
                 ELSE Append(loops.changes, Change(name, "", "reordered"))
  IN  [ svc |-> IF loops.panic THEN svc ELSE loops.ordered,
        fixed |-> ~loops.panic /\ changes # << >>,
        changes |-> IF loops.panic THEN << >> ELSE changes,
        panic |-> loops.panic ]

\* fixService without its second loop: the fields outside fieldOrder are
\* not copied to ordered
fixService_DropsUnknown(name, svc, fieldOrder, c, it) ==
  ServiceOutcome(name, svc,
    FixFields(name, fieldOrder, svc, c, it,
              [ordered |-> << >>, changes |-> << >>, panic |-> FALSE]),
    isFieldOrderCorrect(it.chk, fieldOrder))

\* fixer.fixService.  svc is the Go map of the service; it.rem is the order
\* in which the second loop (`range svc`, after the fields of fieldOrder
\* were deleted from svc) visits the remaining fields, it.chk the order in
\* which isFieldOrderCorrect visits them
fixService(name, svc, fieldOrder, c, it) ==
  ServiceOutcome(name, svc,
    FixFields(name, it.rem, svc, c, it,
      FixFields(name, fieldOrder, svc, c, it,
                [ordered |-> << >>, changes |-> << >>, panic |-> FALSE])),
    isFieldOrderCorrect(it.chk, fieldOrder))

\* the field names of the model in Go string order: yaml.Marshal of a Go
\* map emits its keys sorted, whatever order the map was filled in
MarshalKeyOrder ==
  << "container_name", "custom_field", "environment", "image", "labels", "volumes" >>

\* yaml.Marshal of a value: a mapping is emitted with its keys sorted
MarshalValue(v) ==
  IF v.k = "map"
    THEN Mapping(CHOOSE p \in Perms(v.mp) :
                   \A i \in 1..(Len(p) - 1) : StrLess(p[i].key, p[i + 1].key))
    ELSE v

\* yaml.Marshal of the service map
Marshal(svc) ==
  LET names == SelectSeq(MarshalKeyOrder, LAMBDA n : n \in DOMAIN svc)
  IN  [i \in 1..Len(names) |-> [name |-> names[i], val |-> MarshalValue(svc[names[i]])]]

\* the fields of the Go map svc that are not in fieldOrder: what the map
\* still holds after the first loop of fixService
Remaining(svc, fieldOrder) ==
  SelectSeq(MarshalKeyOrder, LAMBDA n : n \in DOMAIN svc /\ ~InSeq(n, fieldOrder))

\* the end of FixBytes: r is what fixService returned
FixOutput(d, r) ==
  [ out |-> IF r.fixed THEN [name |-> d.name, fields |-> Marshal(r.svc)] ELSE d,
    fixed |-> r.fixed,
    changes |-> r.changes,
    panic |-> r.panic,
    svc |-> r.svc ]

\* fixer.FixBytes on the document: the input is returned as it is unless
\* fixService reported a fix (svc: the service map as fixService left it)
FixBytes(d, c, it) ==
  FixOutput(d, fixService(d.name, GetService(d).Config, GetFieldOrder(c, d.name), c, it))

\* the orders in which the ranges over the Go maps of document d can run
Iterations(d, c) ==
  LET svc == GetService(d).Config
      keysOf(f) == IF f \in DOMAIN svc THEN MapKeys(svc[f]) ELSE << >>
      rem == Remaining(svc, GetFieldOrder(c, d.name))
  IN  { [env |-> e, lab |-> l, rem |-> r, chk |-> k] :
          e \in Perms(keysOf("environment")), l \in Perms(keysOf("labels")),
          r \in Perms(rem), k \in Perms(rem) }

(***************************************************************************)
(* Inputs                                                                  *)
(***************************************************************************)
Str(s) == StrEntry(s)

EnvValues ==
  { List(<< Str(<<"B", "=", "1">>), Str(<<"a", "=", "2">>) >>),
    List(<< Str(<<"a", "=", "2">>), Str(<<"B", "=", "1">>) >>),
    List(<< Str(<<"b", "=", "1">>), MapEntry(<< <<"A">> >>), MapEntry(<< <<"B">> >>) >>),
    Mapping(<< [key |-> <<"B">>, val |-> 1], [key |-> <<"a">>, val |-> 2] >>) }

VolumeValues ==
  { List(<< Str(<<"/", "b", ":", "/", "a">>), Str(<<"/", "a", ":", "/", "b">>) >>) }

LabelValues ==
  { List(<< Str(<<"b">>), Str(<<"A", "=", "1">>) >>) }

ValuesOf(name) ==
  CASE name = "environment" -> EnvValues
    [] name = "volumes" -> VolumeValues
    [] name = "labels" -> LabelValues
    [] OTHER -> { Scalar(1) }

Names == { MarshalKeyOrder[i] : i \in 1..Len(MarshalKeyOrder) }

FieldRecs == UNION { { [name |-> n, val |-> v] : v \in ValuesOf(n) } : n \in Names }

\* the field sequences a YAML service mapping can hold: no duplicate key
FieldSeqs ==
  UNION { { f \in [1..n -> FieldRecs] : \A i, j \in 1..n : f[i].name = f[j].name => i = j }
          : n \in 0..MaxFields }

Docs == { [name |-> "web", fields |-> f] : f \in FieldSeqs }

CustomOrder == << "image", "container_name", "labels", "volumes" >>

AlphaRules ==
  { [Environment |-> TRUE, Volumes |-> TRUE, Labels |-> TRUE],
    [Environment |-> FALSE, Volumes |-> TRUE, Labels |-> TRUE],
    [Environment |-> TRUE, Volumes |-> FALSE, Labels |-> TRUE],
    [Environment |-> TRUE, Volumes |-> TRUE, Labels |-> FALSE] }

Policies ==
  { [ FieldOrder |-> DefaultFieldOrder,
      Alphabetization |-> a,
      Strict |-> s,
      Exclude |-> << >>,
      ServiceOverrides |-> o ] :
      a \in AlphaRules, s \in BOOLEAN, o \in { << >>, ("web" :> CustomOrder) } }

NoValidation == [ran |-> FALSE, violations |-> << >>]

NoFix ==
  [ ran |-> FALSE, fixed |-> FALSE, changes |-> << >>, panic |-> FALSE, svc |-> << >>,
    pre |-> NoValidation ]

NoCall == [fn |-> "none", field |-> "", arg |-> << >>, res |-> << >>]

\* no file system and no command-line run: the state of a run of the
\* checker or the rewriter alone
NoDisk == << >>

NoCli == [pc |-> "none"]

(***************************************************************************)
(* The checker and the rewriter applied to a document                      *)
(***************************************************************************)
Init ==
  /\ doc \in Docs
  /\ cfg \in Policies
  /\ orig = doc
  /\ prevDoc = doc
  /\ validation = NoValidation
  /\ fixres = NoFix
  /\ nfix = 0
  /\ call = NoCall
  /\ disk = NoDisk
  /\ cli = NoCli

\* validator.Validate on the current document
DoValidate ==
  /\ ~validation.ran
  /\ ~fixres.panic
  /\ \E it \in Iterations(doc, cfg) :
       validation' = [ran |-> TRUE, violations |-> Validate(doc, cfg, it)]
  /\ UNCHANGED <<doc, cfg, orig, fixres, prevDoc, nfix, call, disk, cli>>

\* fixer.FixBytes / fixer.Fix on the current document; the document is
\* replaced by the output (Fix writes the file only when Fixed)
DoFix ==
  /\ nfix < MaxFixes
  /\ ~fixres.panic
  /\ \E it \in Iterations(doc, cfg) : \E r \in { FixBytes(doc, cfg, it) } :
       /\ doc' = r.out
       /\ fixres' = [ran |-> TRUE, fixed |-> r.fixed, changes |-> r.changes,
                     panic |-> r.panic, svc |-> r.svc, pre |-> validation]
  /\ prevDoc' = doc
  /\ validation' = NoValidation
  /\ nfix' = nfix + 1
  /\ UNCHANGED <<cfg, orig, call, disk, cli>>

Next == DoValidate \/ DoFix

Spec == Init /\ [][Next]_vars

(***************************************************************************)
(* The sort-key, alphabetization and list-check functions applied to       *)
(* entries and lists                                                       *)
(***************************************************************************)
SpecialFields == { "environment", "volumes", "labels" }

UnitEntries ==
  { Str(<<"z", "z", "z", "=", "1">>),
    Str(<<"A", "A", "A", "=", "2">>),
    Str(<<"B", "B", "B", "=", "3">>),
    Str(<<"a", "a", "a", "=", "3">>),
    Str(<<"/", "z", "z", "z", ":", "/", "c", "/", "z", "z", "z">>),
    Str(<<"/", "a", "a", "a", ":", "/", "c", "/", "a", "a", "a">>),
    Str(<<"/", "m", "m", "m", ":", "/", "c", "/", "m", "m", "m">>),
    Str(<<"=", "b">>),
    Str(<<"b">>),
    MapEntry(<< <<"B">> >>),
    NumEntry(123) }

UnitLists == UNION { [1..n -> UnitEntries] : n \in 0..MaxLen }

\* the entry KEY=1 for each key
EnvEntries(keys) == [i \in 1..Len(keys) |-> Str(keys[i] \o << "=", "1" >>)]

\* a list of 13 environment entries in key order, the first two with the
\* keys a and A, and the same list with its last two entries exchanged
LongLists ==
  { EnvEntries(<< <<"a">>, <<"A">>, <<"a", "a">>, <<"a", "b">>, <<"a", "c">>, <<"a", "m">>,
                  <<"a", "z">>, <<"b">>, <<"b", "a">>, <<"b", "b">>, <<"b", "c">>,
                  <<"b", "m">>, <<"b", "z">> >>),
    EnvEntries(<< <<"a">>, <<"A">>, <<"a", "a">>, <<"a", "b">>, <<"a", "c">>, <<"a", "m">>,
                  <<"a", "z">>, <<"b">>, <<"b", "a">>, <<"b", "b">>, <<"b", "c">>,
                  <<"b", "z">>, <<"b", "m">> >>) }

InitUnit ==
  /\ doc = [name |-> "web", fields |-> << >>]
  /\ cfg = NewDefaultConfig
  /\ orig = doc
  /\ prevDoc = doc
  /\ validation = NoValidation
  /\ fixres = NoFix
  /\ nfix = 0
  /\ call = NoCall
  /\ disk = NoDisk
  /\ cli = NoCli

\* both copies of the sort-key function of a special field, on one entry
CallExtract ==
  /\ call = NoCall
  /\ \E f \in SpecialFields, e \in UnitEntries :
       call' = [fn |-> "extract", field |-> f, arg |-> e,
                res |-> [validator |-> VKeyOf(f, e), fixer |-> KeyOf(f, e)]]
  /\ UNCHANGED <<doc, cfg, orig, validation, fixres, prevDoc, nfix, disk, cli>>

\* alphabetizeEnvironment / alphabetizeVolumes / alphabetizeLabels on a list
CallAlphabetize ==
  /\ call = NoCall
  /\ \E f \in SpecialFields, l \in UnitLists :
       call' = [fn |-> "alphabetize", field |-> f, arg |-> l,
                res |-> CASE f = "environment" -> alphabetizeEnvironment(List(l), << >>)
                          [] f = "volumes" -> alphabetizeVolumes(List(l))
                          [] OTHER -> alphabetizeLabels(List(l), << >>)]
  /\ UNCHANGED <<doc, cfg, orig, validation, fixres, prevDoc, nfix, disk, cli>>

\* validateAlphabetization on a service whose only field is a special field
\* holding a list, with the field's alphabetization flag on or off
CallValidateAlphabetization ==
  /\ call = NoCall
  /\ \E f \in SpecialFields, l \in UnitLists, on \in BOOLEAN :
       LET c == [NewDefaultConfig EXCEPT
                   !.Alphabetization = [Environment |-> (f = "environment") => on,
                                        Volumes |-> (f = "volumes") => on,
                                        Labels |-> (f = "labels") => on]]
           service == [Name |-> "web", FieldOrder |-> << f >>, Config |-> (f :> List(l))]
       IN  call' = [fn |-> "validateAlphabetization", field |-> f, arg |-> l,
                    res |-> [on |-> on,
                             violations |-> validateAlphabetization("web", service, c,
                                               [env |-> << >>, lab |-> << >>])]]
  /\ UNCHANGED <<doc, cfg, orig, validation, fixres, prevDoc, nfix, disk, cli>>

\* alphabetizeEnvironment on a list of more than 12 entries
CallAlphabetizeLong ==
  /\ call = NoCall
  /\ \E l \in LongLists : \E sorted \in SortSliceOutcomes("environment", l) :
       call' = [fn |-> "alphabetize", field |-> "environment", arg |-> l,
                res |-> CompareSorted(List(l), sorted)]
  /\ UNCHANGED <<doc, cfg, orig, validation, fixres, prevDoc, nfix, disk, cli>>

NextUnit ==
  CallExtract \/ CallAlphabetize \/ CallValidateAlphabetization \/ CallAlphabetizeLong

SpecUnit == InitUnit /\ [][NextUnit]_vars

(***************************************************************************)
(* Properties                                                              *)
(***************************************************************************)
\* the longest prefix of s that holds no sep: the substring before the first
\* sep, or all of s when s holds no sep
PrefixBefore(s, sep) ==
  SubSeq(s, 1, CHOOSE n \in 0..Len(s) :
                 /\ \A j \in 1..n : s[j] # sep
                 /\ n = Len(s) \/ s[n + 1] = sep)

\* keys are in ascending (non-decreasing) case-insensitive order
Ascending(keys) ==
  \A i, j \in 1..Len(keys) : i < j => ~StrLess(ToLower(keys[j]), ToLower(keys[i]))

FixerKeys(field, items) == [i \in 1..Len(items) |-> KeyOf(field, items[i])]

CheckerKeys(field, items) == [i \in 1..Len(items) |-> VKeyOf(field, items[i])]

\* b holds the elements of a, each as many times as a does
IsPermutation(a, b) ==
  /\ Len(a) = Len(b)
  /\ \A x \in { a[i] : i \in 1..Len(a) } \cup { b[i] : i \in 1..Len(b) } :
       Cardinality({ i \in 1..Len(a) : a[i] = x }) = Cardinality({ i \in 1..Len(b) : b[i] = x })

\* C8: a special field that holds a list and has alphabetization enabled
\* gets exactly one alphabetization violation when the sort keys of its
\* entries are not in ascending case-insensitive order and none otherwise,
\* never one per out-of-place entry; a list of length 0 or 1 gets none
C8_OneViolationPerField ==
  call.fn = "validateAlphabetization" =>
    LET vs == call.res.violations
        unsorted == ~Ascending(CheckerKeys(call.field, call.arg))
    IN  /\ \A i \in 1..Len(vs) :
             vs[i].Type = "alphabetization" /\ vs[i].Field = call.field
        /\ Len(vs) = IF call.res.on /\ unsorted THEN 1 ELSE 0
        /\ Len(call.arg) < 2 => Len(vs) = 0

\* C8 witness: a list with two out-of-place entries got one violation
C8_Witness ==
  /\ call.fn = "validateAlphabetization"
  /\ call.field = "environment"
  /\ call.res.on
  /\ call.arg = << Str(<<"z", "z", "z", "=", "1">>), Str(<<"B", "B", "B", "=", "3">>),
                   Str(<<"A", "A", "A", "=", "2">>) >>
  /\ Len(call.res.violations) = 1

\* C9: alphabetizeEnvironment, alphabetizeVolumes and alphabetizeLabels on a
\* list return changed = true iff the list is not in ascending
\* case-insensitive sort-key order, and then a permutation of the entries in
\* that order; the two examples of the claim come out as stated
C9_AlphabetizeList ==
  call.fn = "alphabetize" =>
    LET r == call.res
    IN  /\ ~r.panic
        /\ r.changed <=> ~Ascending(FixerKeys(call.field, call.arg))
        /\ r.changed =>
             /\ IsPermutation(call.arg, r.val.items)
             /\ Ascending(FixerKeys(call.field, r.val.items))
        /\ ( /\ call.field = "environment"
             /\ call.arg = << Str(<<"z", "z", "z", "=", "1">>), Str(<<"A", "A", "A", "=", "2">>),
                              Str(<<"B", "B", "B", "=", "3">>) >> )
           => r.val.items = << Str(<<"A", "A", "A", "=", "2">>), Str(<<"B", "B", "B", "=", "3">>),
                               Str(<<"z", "z", "z", "=", "1">>) >>
        /\ ( /\ call.field = "volumes"
             /\ call.arg = << Str(<<"/", "z", "z", "z", ":", "/", "c", "/", "z", "z", "z">>),
                              Str(<<"/", "a", "a", "a", ":", "/", "c", "/", "a", "a", "a">>),
                              Str(<<"/", "m", "m", "m", ":", "/", "c", "/", "m", "m", "m">>) >> )
           => r.val.items = << Str(<<"/", "a", "a", "a", ":", "/", "c", "/", "a", "a", "a">>),
                               Str(<<"/", "m", "m", "m", ":", "/", "c", "/", "m", "m", "m">>),
                               Str(<<"/", "z", "z", "z", ":", "/", "c", "/", "z", "z", "z">>) >>

\* the sort key of the claim C10 for a string entry of a field
ClaimedKey(field, s) == PrefixBefore(s, IF field = "volumes" THEN ":" ELSE "=")

Canon == GetFieldOrder(cfg, doc.name)

Declared(d) == { d.fields[i].name : i \in 1..Len(d.fields) }

\* the declared order restricted to the fields of the canonical order
Actual(d) == SelectSeq(FieldNames(d.fields), LAMBDA f : InSeq(f, Canon))

\* the canonical order restricted to the fields the service declares
Expected(d) == SelectSeq(Canon, LAMBDA f : f \in Declared(d))

\* the positions at which the positional check of the checker finds the
\* declared order and the canonical order to differ
Mismatches(d) ==
  { i \in 1..Min(Len(Actual(d)), Len(Expected(d))) : Actual(d)[i] # Expected(d)[i] }

\* the k-th smallest element of a set of numbers
Kth(S, k) == CHOOSE i \in S : Cardinality({ j \in S : j < i }) = k - 1

Positional(vs) == SelectSeq(vs, LAMBDA v : v.Message = "out of order")

Count(vs, P(_)) == Cardinality({ i \in 1..Len(vs) : P(vs[i]) })

\* no field of the service holds a mapping: the special fields hold lists
ListsOnly(d) == \A i \in 1..Len(d.fields) : d.fields[i].val.k # "map"

\* C1: the checker run on the result of a fix finds no order violation and
\* no alphabetization violation (the violations of strict mode on fields
\* that the rewriter keeps by design are left out); stated for the services
\* whose special fields hold lists
C1_Soundness ==
  (fixres.ran /\ ~fixres.panic /\ validation.ran /\ ListsOnly(orig)) =>
    \A i \in 1..Len(validation.violations) :
       validation.violations[i].Message = "not allowed in strict mode"

\* C2: a fix applied to the output of a fix reports fixed = false and no
\* Fix Record, and leaves the document as it is; stated for the services
\* whose special fields hold lists
C2_Idempotence ==
  (nfix = 2 /\ ListsOnly(orig)) =>
    /\ ~fixres.panic
    /\ ~fixres.fixed
    /\ fixres.changes = << >>
    /\ doc = prevDoc

\* C3: when the declared order of the service did not match the canonical
\* order, the fix records "reordered fields" and reports fixed = true;
\* stated for the services whose special fields hold lists
C3_ReorderRecorded ==
  (fixres.ran /\ ~fixres.panic /\ ListsOnly(orig) /\ Mismatches(prevDoc) # {}) =>
    /\ fixres.fixed
    /\ \E i \in 1..Len(fixres.changes) :
         fixres.changes[i] = Change(prevDoc.name, "", "reordered")

SameUpToOrder(a, b) ==
  /\ a.k = b.k
  /\ a.sv = b.sv
  /\ IsPermutation(a.items, b.items)
  /\ IsPermutation(a.mp, b.mp)

\* C4: when fixService returns, the service has the field names it had and
\* every field has the value it had, except that the entries of
\* environment, volumes and labels may be permuted
C4_NoDataLoss ==
  (fixres.ran /\ ~fixres.panic) =>
    LET before == GetService(prevDoc).Config
    IN  /\ DOMAIN fixres.svc = DOMAIN before
        /\ \A n \in DOMAIN before :
             \/ fixres.svc[n] = before[n]
             \/ n \in SpecialFields /\ SameUpToOrder(before[n], fixres.svc[n])

\* C4 witness: in strict mode, fixService returned a service that has a field
\* outside the canonical order and whose environment it reordered
C4_Witness ==
  /\ fixres.ran
  /\ ~fixres.panic
  /\ cfg.Strict
  /\ "custom_field" \in DOMAIN fixres.svc
  /\ ~InSeq("custom_field", Canon)
  /\ "environment" \in DOMAIN fixres.svc
  /\ fixres.svc["environment"] # GetService(prevDoc).Config["environment"]

\* C5: a fix applied to a service for which the checker reported no
\* violation reports fixed = false and no Fix Record and leaves the document
\* as it is; stated for the services whose special fields hold lists
C5_CompliantUntouched ==
  (fixres.ran /\ fixres.pre.ran /\ fixres.pre.violations = << >> /\ ListsOnly(orig)) =>
    /\ ~fixres.panic
    /\ ~fixres.fixed
    /\ fixres.changes = << >>
    /\ doc = prevDoc

\* C6: validateFieldOrder emits one order violation for each index i with
\* actual[i] # expected[i], in increasing i, with Field = Actual = actual[i]
\* and Expected = expected[i]; [image, container_name, environment] against
\* the default order gives 2 violations, the first on image, none on
\* environment
C6_PositionalViolations ==
  validation.ran =>
    LET pos == Positional(validation.violations)
        M == Mismatches(doc)
    IN  /\ Len(pos) = Cardinality(M)
        /\ \A k \in 1..Len(pos) :
             /\ pos[k].Type = "order"
             /\ pos[k].Service = doc.name
             /\ pos[k].Field = Actual(doc)[Kth(M, k)]
             /\ pos[k].Actual = Actual(doc)[Kth(M, k)]
             /\ pos[k].Expected = Expected(doc)[Kth(M, k)]
        /\ ( /\ FieldNames(doc.fields) = << "image", "container_name", "environment" >>
             /\ Canon = DefaultFieldOrder )
           => /\ Len(pos) = 2
              /\ pos[1].Field = "image"
              /\ \A k \in 1..Len(pos) : pos[k].Field # "environment"

\* C6 witness: the service of the example was checked
C6_Witness ==
  /\ validation.ran
  /\ FieldNames(doc.fields) = << "image", "container_name", "environment" >>
  /\ Canon = DefaultFieldOrder
  /\ Len(Positional(validation.violations)) = 2

Unknown(d) == { f \in Declared(d) : ~InSeq(f, Canon) }

\* the order violations of the checker that are not those of strict mode
\* are the ones it reports with strict mode off
SameWithoutStrict ==
  SelectSeq(validation.violations,
            LAMBDA v : v.Type = "order" /\ v.Message # "not allowed in strict mode")
    = validateFieldOrder(doc.name, GetService(doc), Canon, [cfg EXCEPT !.Strict = FALSE])

\* C7 as stated: with strict mode on, each declared field absent from the
\* canonical order gets exactly one more order violation naming it, whatever
\* the positional violations are; with strict mode off, no violation names
\* a field absent from the canonical order; stated for the services whose
\* special fields hold lists
C7_StrictAsStated ==
  (validation.ran /\ ListsOnly(orig)) =>
    /\ SameWithoutStrict
    /\ cfg.Strict =>
         \A f \in Unknown(doc) :
            Count(validation.violations, LAMBDA v : v.Type = "order" /\ v.Field = f) = 1
    /\ ~cfg.Strict =>
         \A i \in 1..Len(validation.violations) :
            InSeq(validation.violations[i].Field, Canon)

\* C7 amended: with strict mode off, no order violation names a field
\* absent from the canonical order (an alphabetization violation names
\* environment, volumes or labels also when the canonical order omits it)
C7_Strict ==
  validation.ran =>
    /\ SameWithoutStrict
    /\ cfg.Strict =>
         \A f \in Unknown(doc) :
            Count(validation.violations, LAMBDA v : v.Type = "order" /\ v.Field = f) = 1
    /\ ~cfg.Strict =>
         \A i \in 1..Len(validation.violations) :
            validation.violations[i].Type = "order"
              => InSeq(validation.violations[i].Field, Canon)

\* C7 witness: in strict mode the checker reported custom_field next to two
\* positional violations
C7_Witness ==
  /\ validation.ran
  /\ cfg.Strict
  /\ "custom_field" \in Unknown(doc)
  /\ Len(Positional(validation.violations)) = 2
  /\ Count(validation.violations, LAMBDA v : v.Field = "custom_field") = 1

(***************************************************************************)
(* Command line (cmd/compose-validator): run and processFile               *)
(*                                                                         *)
(* disk maps each existing path to the content of the file; cli is the     *)
(* state of one run of the command: its arguments and flags, the position  *)
(* in the loops of run, allValid, the exit code and a log of what was done *)
(* with each file.                                                         *)
(***************************************************************************)
MaxArgs == 2

Yaml(d) == [kind |-> "yaml", doc |-> d]

\* a file the YAML parser rejects
Garbage == [kind |-> "garbage", doc |-> << >>]

Field(n, v) == [name |-> n, val |-> v]

FileValid ==
  Yaml([name |-> "web", fields |-> << Field("container_name", Scalar(1)),
                                       Field("image", Scalar(1)) >>])

\* fields out of order
FileOrder ==
  Yaml([name |-> "web", fields |-> << Field("image", Scalar(1)),
                                       Field("container_name", Scalar(1)) >>])

\* environment not alphabetized
FileAlpha ==
  Yaml([name |-> "web",
        fields |-> << Field("container_name", Scalar(1)),
                      Field("environment",
                            List(<< Str(<<"B", "=", "1">>), Str(<<"a", "=", "2">>) >>)) >>])

\* fields out of order and two long-syntax (mapping) volumes
FileLongVolumes ==
  Yaml([name |-> "web",
        fields |-> << Field("image", Scalar(1)),
                      Field("container_name", Scalar(1)),
                      Field("volumes",
                            List(<< MapEntry(<< <<"B">> >>), MapEntry(<< <<"B">> >>) >>)) >>])

Paths == { "a.yml", "b.yml" }

Patterns == { "a.yml", "*.yml", "missing.yml", "[" }

Disks ==
  { ("a.yml" :> a) : a \in { FileValid, FileOrder, FileAlpha, FileLongVolumes, Garbage } }
    \cup { ("a.yml" :> a) @@ ("b.yml" :> b) :
             a \in { FileValid, FileOrder, FileAlpha, FileLongVolumes, Garbage },
             b \in { FileValid, FileOrder } }

\* the paths of a set in the lexical order filepath.Glob returns them in
SortedPaths(S) ==
  SelectSeq(<< "a.yml", "b.yml" >>, LAMBDA p : p \in S)

\* filepath.Glob(pattern): "[" is a malformed pattern (ErrBadPattern); a
\* pattern that names no existing file matches nothing, without error
Glob(pattern, d) ==
  CASE pattern = "[" -> [err |-> TRUE, files |-> << >>]
    [] pattern = "*.yml" -> [err |-> FALSE, files |-> SortedPaths(DOMAIN d)]
    [] OTHER -> [err |-> FALSE, files |-> SortedPaths(DOMAIN d \cap { pattern })]

\* the step of processFile at which the file system or the YAML library
\* fails, if any
IOFailures ==
  { "none", "read", "fixread", "fixparse", "marshal", "write", "truncate", "reread" }

\* parser.ParseFile
ParseFile(content, failed) ==
  CASE failed -> [err |-> TRUE, cause |-> "read", doc |-> << >>]
    [] ~failed /\ content.kind = "garbage" -> [err |-> TRUE, cause |-> "parse", doc |-> << >>]
    [] OTHER -> [err |-> FALSE, cause |-> "none", doc |-> content.doc]

\* what processFile did with a file: status is "valid" or "invalid" (the
\* result returned), "error" (cause: the step that failed) or "panic"
Outcome(status, cause, content, valid1, fixCalled, fixed, wrote, violations, changes) ==
  [ status |-> status, cause |-> cause, content |-> content, valid1 |-> valid1, fixCalled |-> fixCalled,
    fixed |-> fixed, wrote |-> wrote, violations |-> violations, changes |-> changes ]

\* what processFile returns for a validation result
ReportResult(content, valid1, fixCalled, fixed, wrote, violations, changes) ==
  Outcome(IF violations = << >> THEN "valid" ELSE "invalid", "none",
          content, valid1, fixCalled, fixed, wrote, violations, changes)

\* the end of processFile in fix mode: the file was rewritten, it is parsed
\* and validated again
Revalidate(content, c, io, its, changes) ==
  IF ParseFile(content, io = "reread").err
    THEN Outcome("error", ParseFile(content, io = "reread").cause,
                 content, FALSE, TRUE, TRUE, TRUE, << >>, changes)
    ELSE ReportResult(content, FALSE, TRUE, TRUE, TRUE,
                      Validate(content.doc, c, its[3]), changes)

\* fixer.Fix writing the serialized document whether or not a service was
\* fixed
FixWrite_Always(content, c, io, its, first, r) ==
  CASE r.panic -> Outcome("panic", "none", content, FALSE, TRUE, FALSE, FALSE, first, << >>)
    [] ~r.panic /\ io = "marshal" ->
         Outcome("error", "marshal", content, FALSE, TRUE, r.fixed, FALSE, first, r.changes)
    [] OTHER -> Revalidate(Yaml([name |-> content.doc.name, fields |-> Marshal(r.svc)]),
                           c, io, its, r.changes)

\* fixer.Fix from the marshalling on, then the rest of processFile; r is
\* what the loop over the services produced, first the violations of the
\* validation before the fix
FixWrite(content, c, io, its, first, r) ==
  CASE r.panic -> Outcome("panic", "none", content, FALSE, TRUE, FALSE, FALSE, first, << >>)
    [] ~r.panic /\ ~r.fixed ->
         Outcome("invalid", "none", content, FALSE, TRUE, FALSE, FALSE, first, << >>)
    [] ~r.panic /\ r.fixed /\ io = "marshal" ->
         Outcome("error", "marshal", content, FALSE, TRUE, TRUE, FALSE, first, r.changes)
    [] ~r.panic /\ r.fixed /\ io = "write" ->
         Outcome("error", "write", content, FALSE, TRUE, TRUE, FALSE, first, r.changes)
    [] ~r.panic /\ r.fixed /\ io = "truncate" ->
         Outcome("error", "write", Garbage, FALSE, TRUE, TRUE, TRUE, first, r.changes)
    [] OTHER -> Revalidate(Yaml(r.out), c, io, its, r.changes)

\* fixer.Fix: the file is read and decoded again, then fixed
Fix(content, c, io, its, first) ==
  IF io = "fixread" \/ io = "fixparse"
    THEN Outcome("error", io, content, FALSE, TRUE, FALSE, FALSE, first, << >>)
    ELSE FixWrite(content, c, io, its, first, FixBytes(content.doc, c, its[2]))

\* processFile after the first validation
AfterValidate(content, c, fixMode, io, its, violations) ==
  IF fixMode /\ violations # << >>
    THEN Fix(content, c, io, its, violations)
    ELSE ReportResult(content, violations = << >>, FALSE, FALSE, FALSE, violations, << >>)

\* main.processFile(path, cfg); its are the orders in which the ranges over
\* Go maps run in the first validation, in the fix and in the second
\* validation
processFile(content, c, fixMode, io, its) ==
  IF ParseFile(content, io = "read").err
    THEN Outcome("error", ParseFile(content, io = "read").cause,
                 content, FALSE, FALSE, FALSE, FALSE, << >>, << >>)
    ELSE AfterValidate(content, c, fixMode, io, its, Validate(content.doc, c, its[1]))

\* the iteration orders of the three passes over a file
FileIterations(content, c) ==
  IF content.kind = "yaml"
    THEN Iterations(content.doc, c) \X Iterations(content.doc, c) \X Iterations(content.doc, c)
    ELSE { << << >>, << >>, << >> >> }

\* the log entry of a processed file; same: the file on disk is as it was
LogEntry(path, o, before) ==
  [ path |-> path, status |-> o.status, cause |-> o.cause, valid1 |-> o.valid1, fixCalled |-> o.fixCalled,
    fixed |-> o.fixed, records |-> Len(o.changes), wrote |-> o.wrote,
    same |-> o.content = before, violations |-> o.violations ]

\* the log entry of an argument that matched nothing ("nomatch") or of an
\* excluded file ("skipped")
Note(path, status) ==
  [ path |-> path, status |-> status, cause |-> "none", valid1 |-> FALSE, fixCalled |-> FALSE,
    fixed |-> FALSE, records |-> 0, wrote |-> FALSE, same |-> TRUE, violations |-> << >> ]

ArgLists == UNION { [1..n -> Patterns] : n \in 1..MaxArgs }

\* strings.Split(path, separator) for the paths of the model
Components(path) == << path >>

\* the exclude lists of the model: none, or `**/test/**`, `cfg/*.yml`,
\* `b.yml` and `vendor/**`
ExcludeLists ==
  { << >>,
    << ExcludePattern(TRUE, << "test" >>, "/**"),
       ExcludePattern(FALSE, << "cfg", "*.yml" >>, ""),
       ExcludePattern(FALSE, << "b.yml" >>, ""),
       ExcludePattern(FALSE, << "vendor" >>, "/**") >> }

Modes == { [order |-> FALSE, alpha |-> FALSE], [order |-> TRUE, alpha |-> FALSE],
           [order |-> FALSE, alpha |-> TRUE] }

InitCli ==
  /\ doc = [name |-> "web", fields |-> << >>]
  /\ cfg \in { [NewDefaultConfig EXCEPT !.Exclude = ex] : ex \in ExcludeLists }
  /\ orig = doc
  /\ prevDoc = doc
  /\ validation = NoValidation
  /\ fixres = NoFix
  /\ nfix = 0
  /\ call = NoCall
  /\ disk \in Disks
  /\ \E args \in ArgLists, fix \in BOOLEAN, mode \in Modes, configOk \in BOOLEAN :
       cli = [ pc |-> "start", args |-> args, fixMode |-> fix, checkOrder |-> mode.order,
               checkAlpha |-> mode.alpha, configOk |-> configOk,
               excluded |-> { p \in Paths : IsExcluded(cfg, Components(p)) },
               i |-> 1, queue |-> << >>, allValid |-> TRUE, totalViolations |-> 0,
               exit |-> -1, log |-> << >>, disk0 |-> disk ]

\* run: the configuration is loaded; a load error ends the run
LoadConfig ==
  /\ cli.pc = "start"
  /\ cli' = IF cli.configOk THEN [cli EXCEPT !.pc = "files"]
            ELSE [cli EXCEPT !.pc = "done", !.exit = 1]
  /\ UNCHANGED <<doc, cfg, orig, validation, fixres, prevDoc, nfix, call, disk>>

\* run: the next argument is expanded by filepath.Glob
ExpandPattern ==
  /\ cli.pc = "files"
  /\ cli.queue = << >>
  /\ cli.i <= Len(cli.args)
  /\ \E g \in { Glob(cli.args[cli.i], disk) } :
       cli' = CASE g.err -> [cli EXCEPT !.pc = "done", !.exit = 1]
                [] ~g.err /\ g.files = << >> ->
                     [cli EXCEPT !.i = @ + 1,
                                 !.log = Append(@, Note(cli.args[cli.i], "nomatch"))]
                [] OTHER -> [cli EXCEPT !.i = @ + 1, !.queue = g.files]
  /\ UNCHANGED <<doc, cfg, orig, validation, fixres, prevDoc, nfix, call, disk>>

\* run treating a processFile error like a valid file
Account_IgnoresErrors(c, path, o, before) ==
  CASE o.status = "panic" ->
         [c EXCEPT !.pc = "done", !.exit = 2, !.queue = Tail(@),
                   !.log = Append(@, LogEntry(path, o, before))]
    [] o.status = "invalid" ->
         [c EXCEPT !.allValid = FALSE, !.totalViolations = @ + Len(o.violations),
                   !.queue = Tail(@), !.log = Append(@, LogEntry(path, o, before))]
    [] OTHER -> [c EXCEPT !.queue = Tail(@), !.log = Append(@, LogEntry(path, o, before))]

\* what run does with the result of processFile
Account(c, path, o, before) ==
  CASE o.status = "panic" ->
         [c EXCEPT !.pc = "done", !.exit = 2, !.queue = Tail(@),
                   !.log = Append(@, LogEntry(path, o, before))]
    [] o.status = "error" ->
         [c EXCEPT !.allValid = FALSE, !.queue = Tail(@),
                   !.log = Append(@, LogEntry(path, o, before))]
    [] o.status = "invalid" ->
         [c EXCEPT !.allValid = FALSE, !.totalViolations = @ + Len(o.violations),
                   !.queue = Tail(@), !.log = Append(@, LogEntry(path, o, before))]
    [] OTHER -> [c EXCEPT !.queue = Tail(@), !.log = Append(@, LogEntry(path, o, before))]

\* run: the next matched file is skipped when excluded, processed otherwise
ProcessFile ==
  /\ cli.pc = "files"
  /\ cli.queue # << >>
  /\ IF IsExcluded(cfg, Components(Head(cli.queue)))
       THEN /\ cli' = [cli EXCEPT !.queue = Tail(@),
                                  !.log = Append(@, Note(Head(cli.queue), "skipped"))]
            /\ disk' = disk
       ELSE \E io \in IOFailures :
              \E its \in FileIterations(disk[Head(cli.queue)], cfg) :
                \E o \in { processFile(disk[Head(cli.queue)], cfg, cli.fixMode, io, its) } :
                  /\ cli' = Account(cli, Head(cli.queue), o, disk[Head(cli.queue)])
                  /\ disk' = [disk EXCEPT ![Head(cli.queue)] = o.content]
  /\ UNCHANGED <<doc, cfg, orig, validation, fixres, prevDoc, nfix, call>>

\* run: all arguments were handled; exit status 0 when allValid, 1 otherwise
Finish ==
  /\ cli.pc = "files"
  /\ cli.queue = << >>
  /\ cli.i > Len(cli.args)
  /\ cli' = [cli EXCEPT !.pc = "done", !.exit = IF cli.allValid THEN 0 ELSE 1]
  /\ UNCHANGED <<doc, cfg, orig, validation, fixres, prevDoc, nfix, call, disk>>

NextCli == LoadConfig \/ ExpandPattern \/ ProcessFile \/ Finish

SpecCli == InitCli /\ [][NextCli]_vars

(***************************************************************************)
(* Properties of the command line                                          *)
(***************************************************************************)
\* the log entries of the files that processFile was called on
Processed == SelectSeq(cli.log, LAMBDA e : e.status \notin { "nomatch", "skipped" })

EveryProcessedFileValid == \A k \in 1..Len(Processed) : Processed[k].status = "valid"

WellFormedArgs == \A k \in 1..Len(cli.args) : cli.args[k] # "["

C12_MissingFile ==
  (cli.pc = "done" /\ \E k \in 1..(cli.i - 1) : cli.args[k] = "missing.yml") =>
    /\ cli.exit # 0
    /\ \E k \in 1..Len(cli.log) :
         cli.log[k].path = "missing.yml" /\ cli.log[k].status = "error"

\* C13: a file is overwritten only after Fix read and decoded it, a service
\* produced a Fix Record and the document was serialized; after a read,
\* parse or serialization error the file is as it was; with --fix a file
\* that validated clean is not passed to Fix and not written
C13_WriteOnlyAfterFix ==
  /\ \A k \in 1..Len(cli.log) :
       LET e == cli.log[k]
       IN  /\ e.wrote => (e.fixCalled /\ e.fixed /\ e.records >= 1 /\ ~e.valid1
                           /\ e.cause \notin { "fixread", "fixparse", "marshal" })
           /\ ~e.wrote => e.same
           /\ (e.status = "error" /\ e.cause \in { "fixread", "fixparse", "marshal" })
                => (e.same /\ ~e.wrote)
           /\ (e.status = "error" /\ ~e.fixed) => e.same
           /\ e.valid1 => (~e.fixCalled /\ ~e.wrote /\ e.same)
           /\ e.fixCalled => cli.fixMode
  /\ \A p \in DOMAIN disk :
       disk[p] # cli.disk0[p] => \E k \in 1..Len(cli.log) : cli.log[k].path = p /\ cli.log[k].wrote

\* C13 witness: Fix failed to serialize the corrected document of a file
\* and another file was rewritten
C13_Witness ==
  /\ \E k \in 1..Len(cli.log) : cli.log[k].cause = "marshal" /\ cli.log[k].same
  /\ \E k \in 1..Len(cli.log) : cli.log[k].wrote /\ ~cli.log[k].same

\* the number of files the arguments k..Len(args) match
RECURSIVE Matched(_, _, _)
Matched(args, d, k) ==
  IF k > Len(args) THEN 0
  ELSE Len(SelectSeq(Glob(args[k], d).files, LAMBDA p : p \notin cli.excluded))
         + Matched(args, d, k + 1)

\* C14: an error on one file is reported and makes the exit code non-zero,
\* and every other file of the batch is still processed; a configuration
\* load error ends the run before a file is parsed, validated or written
C14_ErrorsDoNotStopBatch ==
  cli.pc = "done" =>
    /\ (\E k \in 1..Len(cli.log) : cli.log[k].status \in { "error", "panic" }) => cli.exit # 0
    /\ (cli.configOk /\ WellFormedArgs) => Len(Processed) = Matched(cli.args, cli.disk0, 1)
    /\ ~cli.configOk => (cli.log = << >> /\ disk = cli.disk0 /\ cli.exit # 0)

\* C19: with --check-order-only only order violations are reported, with
\* --check-alphabetization-only only alphabetization violations; a file
\* whose only violations are of the other kind is valid and does not make
\* the exit code non-zero
C19_OnlyFlags ==
  (cli.pc = "done" /\ cli.configOk /\ WellFormedArgs /\ ~cli.fixMode) =>
    LET kind == IF cli.checkOrder THEN "order" ELSE "alphabetization"
        selected(e) == SelectSeq(e.violations, LAMBDA v : v.Type = kind)
    IN  (cli.checkOrder \/ cli.checkAlpha) =>
          /\ \A k \in 1..Len(Processed) :
               /\ Processed[k].violations = selected(Processed[k])
               /\ (Processed[k].status = "invalid") <=> (selected(Processed[k]) # << >>)
          /\ (\A k \in 1..Len(Processed) :
                Processed[k].status # "error" /\ selected(Processed[k]) = << >>)
               => cli.exit = 0

(***************************************************************************)
(* Files with several service groups and several services                  *)
(*                                                                         *)
(* A file is a sequence of groups (YAML documents); a group either has a   *)
(* `services` mapping or not, and declares services in source order; the   *)
(* value of a declared service is a mapping of fields or something else.   *)
(***************************************************************************)
MaxGroups == 2

Decl(n, fields) == [name |-> n, isMap |-> TRUE, fields |-> fields]

\* a service name whose value is not a mapping
NonMapDecl(n) == [name |-> n, isMap |-> FALSE, fields |-> << >>]

Group(decls) == [services |-> TRUE, decls |-> decls]

\* a document without a `services` mapping
NoServicesGroup == [services |-> FALSE, decls |-> << >>]

\* a document whose mapping of services sits under another top-level key
OtherKeyGroup(decls) == [services |-> FALSE, decls |-> decls]

UnsortedEnv == List(<< Str(<<"B", "=", "1">>), Str(<<"a", "=", "2">>) >>)

UnsortedVolumes == List(<< Str(<<"/", "b", ":", "/", "a">>), Str(<<"/", "a", ":", "/", "b">>) >>)

UnsortedLabels == List(<< Str(<<"b">>), Str(<<"A", "=", "1">>) >>)

BodyValid == << Field("container_name", Scalar(1)), Field("image", Scalar(1)) >>

BodyOrder == << Field("image", Scalar(1)), Field("container_name", Scalar(1)) >>

BodyAlpha ==
  << Field("container_name", Scalar(1)), Field("environment", UnsortedEnv),
     Field("labels", UnsortedLabels) >>

BodyAll ==
  << Field("labels", UnsortedLabels), Field("environment", UnsortedEnv),
     Field("volumes", UnsortedVolumes), Field("image", Scalar(1)),
     Field("container_name", Scalar(1)) >>

Groups ==
  { NoServicesGroup,
    OtherKeyGroup(<< Decl("db", BodyValid) >>),
    Group(<< Decl("web", BodyOrder) >>),
    Group(<< Decl("web", BodyAlpha) >>),
    Group(<< Decl("web", BodyAlpha), Decl("db", BodyAlpha) >>),
    Group(<< Decl("db", BodyValid), Decl("web", BodyAll) >>),
    Group(<< NonMapDecl("web") >>),
    Group(<< Decl("web", BodyValid), Decl("web", BodyOrder) >>),
    Group(<< Decl("db", BodyOrder) >>) }

Files == UNION { [1..n -> Groups] : n \in 1..MaxGroups }

\* an override order that leaves environment, volumes and labels out
ShortOrder == << "container_name", "image" >>

FilePolicies ==
  { [NewDefaultConfig EXCEPT !.ServiceOverrides = o] :
      o \in { << >>, ("web" :> ShortOrder), ("web" :> << >>),
              ("db" :> << "image", "container_name", "labels", "environment" >>) } }

RECURSIVE AddDecls(_, _, _)
\* a GetServices that keeps the first service stored under a name
AddDecls_FirstWins(services, decls, k) ==
  IF k > Len(decls) THEN services
  ELSE AddDecls(IF decls[k].isMap
                  THEN services @@
                       (decls[k].name :>
                          GetService([name |-> decls[k].name, fields |-> decls[k].fields]))
                  ELSE services,
                decls, k + 1)

\* GetServices, the loop over the services of one group: a service whose
\* value is a mapping is stored under its name, replacing what the name held
AddDecls(services, decls, k) ==
  IF k > Len(decls) THEN services
  ELSE AddDecls(IF decls[k].isMap
                  THEN (decls[k].name :>
                          GetService([name |-> decls[k].name, fields |-> decls[k].fields]))
                       @@ services
                  ELSE services,
                decls, k + 1)

RECURSIVE AddGroups(_, _, _)
\* GetServices, the loop over the documents of the file
AddGroups(services, cf, g) ==
  IF g > Len(cf) THEN services
  ELSE AddGroups(IF cf[g].services THEN AddDecls(services, cf[g].decls, 1) ELSE services,
                 cf, g + 1)

\* ComposeFile.GetServices
GetServices(cf) == AddGroups(<< >>, cf, 1)

\* the names of a set in Go string order
SortedNames(S) == SelectSeq(<< "db", "web" >>, LAMBDA n : n \in S)

\* the document that holds the one service s
DocOf(s) ==
  [ name |-> s.Name,
    fields |-> [i \in 1..Len(s.FieldOrder) |-> Field(s.FieldOrder[i], s.Config[s.FieldOrder[i]])] ]

\* for each service, the orders in which the ranges over its Go maps can run
ServiceIterations(services, c) ==
  { f \in [DOMAIN services -> UNION { Iterations(DocOf(services[n]), c) : n \in DOMAIN services }] :
      \A n \in DOMAIN services : f[n] \in Iterations(DocOf(services[n]), c) }

RECURSIVE ValidateServices(_, _, _, _, _)
\* a Validate that appends a service's alphabetization violations first
ValidateServices_AlphaFirst(services, c, visit, its, k) ==
  IF k > Len(visit) THEN << >>
  ELSE ( validateAlphabetization(visit[k], services[visit[k]], c, its[visit[k]])
           \o validateFieldOrder(visit[k], services[visit[k]], GetFieldOrder(c, visit[k]), c) )
         \o ValidateServices(services, c, visit, its, k + 1)

\* validator.Validate, the loop `for serviceName, service := range services`
\* visiting the services in the order visit
ValidateServices(services, c, visit, its, k) ==
  IF k > Len(visit) THEN << >>
  ELSE ( validateFieldOrder(visit[k], services[visit[k]], GetFieldOrder(c, visit[k]), c)
           \o validateAlphabetization(visit[k], services[visit[k]], c, its[visit[k]]) )
         \o ValidateServices(services, c, visit, its, k + 1)

\* validator.Validate on a file
ValidateFile(cf, c, visit, its) == ValidateServices(GetServices(cf), c, visit, its, 1)

\* FixBytes, one pass of the loop over the services: r is what fixService
\* returned for service n
StoreService(acc, n, r) ==
  CASE r.panic -> [acc EXCEPT !.panic = TRUE]
    [] ~r.panic /\ r.fixed ->
         [acc EXCEPT !.fixed = TRUE, !.changes = @ \o r.changes, !.svcs = (n :> r.svc) @@ @]
    [] OTHER -> acc

RECURSIVE FixLoop(_, _, _, _, _, _)
\* FixBytes, the loop `for serviceName, svc := range services` visiting the
\* services in the order visit; a value that is not a mapping is left alone
FixLoop(servs, c, visit, its, k, acc) ==
  IF k > Len(visit) \/ acc.panic THEN acc
  ELSE FixLoop(servs, c, visit, its, k + 1,
         IF servs[visit[k]].isMap
           THEN StoreService(acc, visit[k],
                  fixService(visit[k], acc.svcs[visit[k]], GetFieldOrder(c, visit[k]), c,
                             its[visit[k]]))
           ELSE acc)

\* the services mapping that yaml.Unmarshal decodes from a file of one
\* group whose service names are distinct
Decoded(cf) ==
  [ n \in { cf[1].decls[k].name : k \in 1..Len(cf[1].decls) } |->
      LET d == cf[1].decls[CHOOSE k \in 1..Len(cf[1].decls) : cf[1].decls[k].name = n]
      IN  [ isMap |-> d.isMap,
            svc |-> IF d.isMap THEN GetService([name |-> n, fields |-> d.fields]).Config
                    ELSE << >> ] ]

\* yaml.Marshal of the fixed content: services and fields in key order
MarshalFile(servs, svcs) ==
  << Group([k \in 1..Len(SortedNames(DOMAIN servs)) |->
              IF servs[SortedNames(DOMAIN servs)[k]].isMap
                THEN Decl(SortedNames(DOMAIN servs)[k],
                          Marshal(svcs[SortedNames(DOMAIN servs)[k]]))
                ELSE NonMapDecl(SortedNames(DOMAIN servs)[k])]) >>

\* the end of FixBytes: the input unless a service was fixed
FileOutput(cf, servs, acc) ==
  [ out |-> IF acc.fixed /\ ~acc.panic THEN MarshalFile(servs, acc.svcs) ELSE cf,
    fixed |-> acc.fixed /\ ~acc.panic,
    changes |-> IF acc.panic THEN << >> ELSE acc.changes,
    panic |-> acc.panic ]

FixDecoded(cf, servs, c, visit, its) ==
  FileOutput(cf, servs,
    FixLoop(servs, c, visit, its, 1,
            [ svcs |-> [n \in DOMAIN servs |-> servs[n].svc], fixed |-> FALSE,
              changes |-> << >>, panic |-> FALSE ]))

\* fixer.FixBytes on a file of one group
FixBytesFile(cf, c, visit, its) ==
  IF cf[1].services THEN FixDecoded(cf, Decoded(cf), c, visit, its)
  ELSE [out |-> cf, fixed |-> FALSE, changes |-> << >>, panic |-> FALSE]

\* the files FixBytesFile is applied to: one group, distinct service names
OneGroup(cf) ==
  /\ Len(cf) = 1
  /\ \A j, k \in 1..Len(cf[1].decls) : cf[1].decls[j].name = cf[1].decls[k].name => j = k

InitFile ==
  /\ doc = [name |-> "web", fields |-> << >>]
  /\ cfg \in FilePolicies
  /\ orig = doc
  /\ prevDoc = doc
  /\ validation = NoValidation
  /\ fixres = NoFix
  /\ nfix = 0
  /\ call = NoCall
  /\ disk \in { ("f" :> cf) : cf \in Files }
  /\ cli = NoCli

\* GetServices on the file
CallGetServices ==
  /\ call = NoCall
  /\ call' = [fn |-> "GetServices", field |-> "", arg |-> disk["f"],
              res |-> GetServices(disk["f"])]
  /\ UNCHANGED <<doc, cfg, orig, validation, fixres, prevDoc, nfix, disk, cli>>

\* Validate on the file, the ranges over Go maps running in some order
CallValidateFile ==
  /\ call = NoCall
  /\ \E visit \in Perms(SortedNames(DOMAIN GetServices(disk["f"]))) :
       \E its \in ServiceIterations(GetServices(disk["f"]), cfg) :
         call' = [fn |-> "Validate", field |-> "", arg |-> [file |-> disk["f"], cfg |-> cfg],
                  res |-> [visit |-> visit, its |-> its,
                           violations |-> ValidateFile(disk["f"], cfg, visit, its)]]
  /\ UNCHANGED <<doc, cfg, orig, validation, fixres, prevDoc, nfix, disk, cli>>

\* the services of the first group that are mappings, as services
FixableServices(cf) ==
  AddDecls(<< >>, cf[1].decls, 1)

\* two runs of FixBytes on the same file with the same policy, the ranges
\* over Go maps running in some order in each
CallFixBytesTwice ==
  /\ call = NoCall
  /\ OneGroup(disk["f"])
  /\ \E v1, v2 \in Perms(SortedNames(DOMAIN Decoded(disk["f"]))) :
       \E its1, its2 \in ServiceIterations(FixableServices(disk["f"]), cfg) :
         call' = [fn |-> "FixBytes", field |-> "", arg |-> [file |-> disk["f"], cfg |-> cfg],
                  res |-> [visit |-> v1, its |-> its1,
                           first |-> FixBytesFile(disk["f"], cfg, v1, its1),
                           second |-> FixBytesFile(disk["f"], cfg, v2, its2)]]
  /\ UNCHANGED <<doc, cfg, orig, validation, fixres, prevDoc, nfix, disk, cli>>

\* the service names of the first document are distinct
DistinctNames(cf) ==
  \A j, k \in 1..Len(cf[1].decls) : cf[1].decls[j].name = cf[1].decls[k].name => j = k

\* FixBytes on a file of one or more documents: yaml.Unmarshal decodes the
\* first document of the bytes only, and yaml.Marshal writes back what was
\* decoded
CallFixBytesFile ==
  /\ call = NoCall
  /\ DistinctNames(disk["f"])
  /\ \E visit \in Perms(SortedNames(DOMAIN Decoded(disk["f"]))) :
       \E its \in ServiceIterations(FixableServices(disk["f"]), cfg) :
         call' = [fn |-> "FixFile", field |-> "", arg |-> [file |-> disk["f"], cfg |-> cfg],
                  res |-> FixBytesFile(disk["f"], cfg, visit, its)]
  /\ UNCHANGED <<doc, cfg, orig, validation, fixres, prevDoc, nfix, disk, cli>>

NextFile == CallGetServices \/ CallValidateFile \/ CallFixBytesTwice \/ CallFixBytesFile

SpecFile == InitFile /\ [][NextFile]_vars

(***************************************************************************)
(* Loading the policy (config.Load, config.LoadFromFile)                   *)
(*                                                                         *)
(* A configuration file is unreadable, not YAML, or a set of settings: a   *)
(* function from the names of the Config fields it gives to their values.  *)
(* The directories from the filesystem root (index 1) down to the working  *)
(* directory (the last index) each hold some of the four conventional      *)
(* file names.                                                             *)
(***************************************************************************)
MaxDepth == 3

\* config.configFileNames, in priority order
configFileNames ==
  << ".compose-validator.yaml", ".compose-validator.yml", "compose-validator.yaml",
     "compose-validator.yml" >>

ConfigYaml(settings) == [kind |-> "yaml", data |-> settings]

Unreadable == [kind |-> "unreadable", data |-> << >>]

NotYaml == [kind |-> "garbage", data |-> << >>]

\* the values a configuration file can give each field: field_order absent,
\* empty or two fields; the other settings absent or given
Settings ==
  { fo @@ al @@ st @@ ex :
      fo \in { << >>, [FieldOrder |-> << >>], [FieldOrder |-> << "image", "container_name" >>] },
      al \in { << >>,
               [Alphabetization |-> [Environment |-> TRUE, Volumes |-> FALSE, Labels |-> TRUE]] },
      st \in { << >>, [Strict |-> TRUE] },
      ex \in { << >>, [Exclude |-> << ExcludePattern(TRUE, << "test" >>, "/**") >>] } }

ConfigFiles == { ConfigYaml(x) : x \in Settings } \cup { Unreadable, NotYaml }

\* yaml.Unmarshal(data, cfg): the fields the document gives are set, the
\* others keep the value cfg had
Unmarshal(settings, c) ==
  [k \in DOMAIN c |-> IF k \in DOMAIN settings THEN settings[k] ELSE c[k]]

\* LoadFromFile without the check for an empty field order
FieldOrderCheck_None(c) == c

\* LoadFromFile, `if len(cfg.FieldOrder) == 0 { cfg.FieldOrder = DefaultFieldOrder }`
FieldOrderCheck(c) ==
  IF Len(c.FieldOrder) = 0 THEN [c EXCEPT !.FieldOrder = DefaultFieldOrder] ELSE c

\* config.LoadFromFile on the content of the file at the path
LoadFromFile(file) ==
  CASE file.kind = "unreadable" -> [err |-> "read", cfg |-> << >>]
    [] file.kind = "garbage" -> [err |-> "parse", cfg |-> << >>]
    [] OTHER -> [err |-> "none", cfg |-> FieldOrderCheck(Unmarshal(file.data, NewDefaultConfig))]

\* the conventional names a directory of the model can hold
Listings ==
  { {}, { configFileNames[1] }, { configFileNames[3] },
    { configFileNames[2], configFileNames[4] },
    { configFileNames[1], configFileNames[2], configFileNames[3], configFileNames[4] } }

\* what the conventional files of the model hold, by directory and name
FileAt(d, name) ==
  CASE name = configFileNames[1] ->
         ConfigYaml([FieldOrder |-> << "image", "container_name" >>] @@ [Strict |-> (d = 1)])
    [] name = configFileNames[2] -> ConfigYaml([Strict |-> TRUE])
    [] name = configFileNames[3] -> IF d = 1 THEN NotYaml ELSE ConfigYaml(<< >>)
    [] OTHER -> Unreadable

\* the directory trees of the model: dirs[1] is the root, cwd the working
\* directory
Trees ==
  UNION { { [dirs |-> t, cwd |-> n] : t \in [1..n -> Listings] } : n \in 1..MaxDepth }

\* filepath.Dir(dir): the parent of the root is the root
Parent(d) == IF d = 1 THEN 1 ELSE d - 1

\* the first of configFileNames that os.Stat finds in directory d, 0 if none
FirstFound(tree, d) ==
  IF \E k \in 1..Len(configFileNames) : configFileNames[k] \in tree.dirs[d]
    THEN CHOOSE k \in 1..Len(configFileNames) :
           /\ configFileNames[k] \in tree.dirs[d]
           /\ \A j \in 1..(k - 1) : configFileNames[j] \notin tree.dirs[d]
    ELSE 0

\* the state of Load: the directory it is about to search, or its result
Searching(d) == [pc |-> "search", dir |-> d, path |-> << >>, err |-> "none", cfg |-> << >>]

Returned(path, r) == [pc |-> "done", dir |-> 0, path |-> path, err |-> r.err, cfg |-> r.cfg]

\* a Load that looks for the last of the conventional names first
LoadPass_LastName(tree, d, k) ==
  CASE k > 0 ->
         Returned(<< d, configFileNames[k] >>,
                  LoadFromFile(FileAt(d, configFileNames[
                    CHOOSE j \in 1..Len(configFileNames) :
                      /\ configFileNames[j] \in tree.dirs[d]
                      /\ \A i \in (j + 1)..Len(configFileNames) :
                           configFileNames[i] \notin tree.dirs[d]])))
    [] k = 0 /\ Parent(d) = d -> Returned(<< >>, [err |-> "none", cfg |-> NewDefaultConfig])
    [] OTHER -> Searching(Parent(d))

\* Load, one pass of the outer loop in directory d: k is what the inner
\* loop over configFileNames found
LoadPass(tree, d, k) ==
  CASE k > 0 -> Returned(<< d, configFileNames[k] >>, LoadFromFile(FileAt(d, configFileNames[k])))
    [] k = 0 /\ Parent(d) = d -> Returned(<< >>, [err |-> "none", cfg |-> NewDefaultConfig])
    [] OTHER -> Searching(Parent(d))

InitConfig ==
  /\ doc = [name |-> "web", fields |-> << >>]
  /\ cfg = NewDefaultConfig
  /\ orig = doc
  /\ prevDoc = doc
  /\ validation = NoValidation
  /\ fixres = NoFix
  /\ nfix = 0
  /\ call = NoCall
  /\ disk \in Trees
  /\ cli = NoCli

\* LoadFromFile on an explicit path (--config)
CallLoadFromFile ==
  /\ call = NoCall
  /\ \E file \in ConfigFiles :
       call' = [fn |-> "LoadFromFile", field |-> "", arg |-> file, res |-> LoadFromFile(file)]
  /\ UNCHANGED <<doc, cfg, orig, validation, fixres, prevDoc, nfix, disk, cli>>

\* Load: os.Getwd, which can fail
StartLoad ==
  /\ call = NoCall
  /\ \E ok \in BOOLEAN :
       call' = [fn |-> "Load", field |-> "", arg |-> disk,
                res |-> IF ok THEN Searching(disk.cwd)
                        ELSE Returned(<< >>, [err |-> "getwd", cfg |-> << >>])]
  /\ UNCHANGED <<doc, cfg, orig, validation, fixres, prevDoc, nfix, disk, cli>>

\* Load: one pass of the loop over the directories
LoadStep ==
  /\ call.fn = "Load"
  /\ call.res.pc = "search"
  /\ call' = [call EXCEPT !.res = LoadPass(disk, call.res.dir, FirstFound(disk, call.res.dir))]
  /\ UNCHANGED <<doc, cfg, orig, validation, fixres, prevDoc, nfix, disk, cli>>

NextConfig == CallLoadFromFile \/ StartLoad \/ LoadStep

SpecConfig == InitConfig /\ [][NextConfig]_vars

\* Load runs to its end once started: nothing else of the process can
\* keep its loop from taking the next pass
SpecConfigLive == SpecConfig /\ WF_vars(LoadStep)

(***************************************************************************)
(* Properties of files with several groups and services                    *)
(***************************************************************************)
ServiceNames == { "db", "web" }

\* the declarations of group g that give name n a mapping value
Declarations(g, n) ==
  { k \in 1..Len(g.decls) : g.services /\ g.decls[k].name = n /\ g.decls[k].isMap }

\* the groups of file cf that declare service n
Declaring(cf, n) == { g \in 1..Len(cf) : Declarations(cf[g], n) # {} }

Max(S) == CHOOSE x \in S : \A y \in S : y <= x

\* the last declaration of service n in file cf
LastDeclared(cf, n) ==
  cf[Max(Declaring(cf, n))].decls[Max(Declarations(cf[Max(Declaring(cf, n))], n))]

\* C20: GetServices returns one mapping from name to Service over all the
\* groups of the file: a name is in it exactly when some group with a
\* services mapping declares it as a service, it then holds the service of
\* the last group that declares it, and a group without a services mapping
\* contributes nothing.
C20_Flattened ==
  call.fn = "GetServices" =>
    /\ DOMAIN call.res = { n \in ServiceNames : Declaring(call.arg, n) # {} }
    /\ \A n \in DOMAIN call.res :
         call.res[n] = GetService([name |-> n, fields |-> LastDeclared(call.arg, n).fields])

\* two groups declare web with different fields and the later one is held,
\* or a group without a services mapping is followed by one with it
C20_Witness ==
  /\ call.fn = "GetServices"
  /\ Len(call.arg) = 2
  /\ Declaring(call.arg, "web") = { 1, 2 }
  /\ call.arg[1].decls[1].fields = BodyOrder
  /\ call.arg[2].decls # call.arg[1].decls
  /\ call.res["web"].FieldOrder = FieldNames(LastDeclared(call.arg, "web").fields)
  /\ call.res["web"].FieldOrder # FieldNames(BodyOrder)

\* the place of a violation in the report of its service
Rank(v) ==
  CASE v.Type = "order" -> 0
    [] v.Type = "alphabetization" /\ v.Field = "environment" -> 1
    [] v.Type = "alphabetization" /\ v.Field = "volumes" -> 2
    [] OTHER -> 3

\* C16: in the list Validate returns, the violations of one service are
\* contiguous, its order violations come before its alphabetization
\* violations, and these come in the order environment, volumes, labels;
\* Validate leaves the file and the policy as they were.
C16_ViolationOrder ==
  call.fn = "Validate" =>
    /\ \A i, j \in 1..Len(call.res.violations) :
         (i < j /\ call.res.violations[i].Service = call.res.violations[j].Service) =>
           /\ Rank(call.res.violations[i]) <= Rank(call.res.violations[j])
           /\ Rank(call.res.violations[i]) = Rank(call.res.violations[j]) =>
                call.res.violations[i].Type = "order"
           /\ \A k \in i..j : call.res.violations[k].Service = call.res.violations[i].Service
    /\ disk["f"] = call.arg.file
    /\ cfg = call.arg.cfg

\* a file of two services: web with order violations and one violation for
\* each special field, db with violations of its own
C16_Witness ==
  /\ call.fn = "Validate"
  /\ \A r \in 0..3 : \E i \in 1..Len(call.res.violations) :
       call.res.violations[i].Service = "web" /\ Rank(call.res.violations[i]) = r
  /\ \E i \in 1..Len(call.res.violations) : call.res.violations[i].Service = "db"

\* C15: two runs of FixBytes on the same file with the same policy return
\* the same fixed boolean, the same list of change descriptions in the same
\* order, and the same output.
C15_Deterministic ==
  call.fn = "FixBytes" => call.res.first = call.res.second

\* the canonical order of service n as C17 states it
StatedOrder(c, n) ==
  IF n \in DOMAIN c.ServiceOverrides /\ c.ServiceOverrides[n] # << >>
    THEN c.ServiceOverrides[n]
    ELSE c.FieldOrder

\* the changes FixBytes takes over from the result r of fixService
StatedChanges(r) == IF r.fixed THEN r.changes ELSE << >>

\* C17: GetFieldOrder returns the override registered for the name when it
\* has at least one field and the global order otherwise; the order
\* violations Validate reports for a service, and the changes FixBytes
\* reports for it, are those computed against that order.
C17_SameOrder ==
  /\ \A n \in ServiceNames : GetFieldOrder(cfg, n) = StatedOrder(cfg, n)
  /\ call.fn = "Validate" =>
       \A n \in DOMAIN GetServices(call.arg.file) :
         SelectSeq(call.res.violations, LAMBDA v : v.Service = n /\ v.Type = "order")
           = validateFieldOrder(n, GetServices(call.arg.file)[n], StatedOrder(cfg, n), cfg)
  /\ call.fn = "FixBytes" =>
       \A n \in DOMAIN FixableServices(call.arg.file) :
         SelectSeq(call.res.first.changes, LAMBDA ch : ch.Service = n)
           = StatedChanges(fixService(n, Decoded(call.arg.file)[n].svc, StatedOrder(cfg, n),
                                      cfg, call.res.its[n]))

\* db is declared image, container_name and has an override that starts
\* with image, container_name: Validate reports nothing for db, and reports
\* order violations for web, which has no override
C17_Witness ==
  /\ call.fn = "Validate"
  /\ "db" \in DOMAIN cfg.ServiceOverrides
  /\ "web" \notin DOMAIN cfg.ServiceOverrides
  /\ DOMAIN GetServices(call.arg.file) = ServiceNames
  /\ GetServices(call.arg.file)["db"].FieldOrder = << "image", "container_name" >>
  /\ \A i \in 1..Len(call.res.violations) : call.res.violations[i].Service = "web"
  /\ \E i \in 1..Len(call.res.violations) : call.res.violations[i].Type = "order"

(***************************************************************************)
(* Disabled alphabetization                                                *)
(***************************************************************************)
AlphaViolations(vs, f) ==
  SelectSeq(vs, LAMBDA v : v.Type = "alphabetization" /\ v.Field = f)

AlphaChanges(chs, f) ==
  SelectSeq(chs, LAMBDA ch : ch.Kind = "alphabetized" /\ ch.Field = f)

\* the alphabetization flag of the policy for special field f
Enabled(f) ==
  CASE f = "environment" -> cfg.Alphabetization.Environment
    [] f = "volumes" -> cfg.Alphabetization.Volumes
    [] f = "labels" -> cfg.Alphabetization.Labels

NoDuplicate(seq) == \A i, j \in 1..Len(seq) : seq[i] = seq[j] => i = j

\* the fields of the canonical order are declared in canonical relative order
InCanonicalOrder(d) ==
  \A i, j \in 1..Len(Actual(d)) :
    i < j => getFieldIndex(Actual(d)[i], Canon) < getFieldIndex(Actual(d)[j], Canon)

\* C30: for a service without a duplicate field checked against a canonical
\* order without a duplicate, the actual and the expected sequence of
\* validateFieldOrder are permutations of each other, the number of
\* positional order violations is never 1, and it is 0 exactly when the
\* canonical fields are declared in canonical relative order.
C30_NeverOneViolation ==
  (validation.ran /\ NoDuplicate(FieldNames(doc.fields)) /\ NoDuplicate(Canon)) =>
    /\ IsPermutation(Actual(doc), Expected(doc))
    /\ Len(Positional(validation.violations)) # 1
    /\ Len(Positional(validation.violations)) = 0 <=> InCanonicalOrder(doc)

\* three canonical fields declared in a rotated order: three violations
C30_Witness ==
  /\ validation.ran
  /\ NoDuplicate(FieldNames(doc.fields))
  /\ NoDuplicate(Canon)
  /\ Len(doc.fields) = 3
  /\ Len(Positional(validation.violations)) = 3

(***************************************************************************)
(* The field sequence of a fixed service                                   *)
(***************************************************************************)
\* the declared fields of d that are outside the canonical order, in
\* declared order
Rest(d) == SelectSeq(FieldNames(d.fields), LAMBDA f : ~InSeq(f, Canon))

\* C24: the fields of a service that a fix rewrote are the fields of the
\* canonical order, in canonical order, followed by the remaining fields in
\* their declared relative order.
C24_CanonicalThenRest ==
  (fixres.ran /\ ~fixres.panic /\ fixres.fixed) =>
    FieldNames(doc.fields) = Expected(prevDoc) \o Rest(prevDoc)

(***************************************************************************)
(* Failures of the rewriter                                                *)
(***************************************************************************)
\* C25: a fix of a syntactically valid service completes normally: it does
\* not panic, whatever the entries of its environment, volumes and labels
\* lists are.
C25_NeverRaises ==
  fixres.ran => ~fixres.panic

(***************************************************************************)
(* Mapping-valued environment and labels                                   *)
(***************************************************************************)
MapFields == { "environment", "labels" }

\* the service of d holds a mapping under special field f
HoldsMapping(d, f) ==
  f \in DOMAIN GetService(d).Config /\ GetService(d).Config[f].k = "map"

\* C26: a mapping-valued environment or labels field with alphabetization
\* enabled gets an alphabetization violation exactly when its keys, in
\* declared order, are not in ascending case-insensitive order, and a fix
\* reports it alphabetized exactly in that case.
C26_DeclaredKeyOrder ==
  \A f \in MapFields :
    Enabled(f) =>
      /\ (validation.ran /\ HoldsMapping(doc, f)) =>
           (AlphaViolations(validation.violations, f) # << >>
              <=> ~Ascending(MapKeys(GetService(doc).Config[f])))
      /\ (fixres.ran /\ ~fixres.panic /\ HoldsMapping(prevDoc, f)) =>
           (AlphaChanges(fixres.changes, f) # << >>
              <=> ~Ascending(MapKeys(GetService(prevDoc).Config[f])))

C28_DeclaredOrderKept ==
  call.fn = "GetServices" =>
    \A n \in DOMAIN call.res :
      /\ Len(call.res[n].FieldOrder) = Len(LastDeclared(call.arg, n).fields)
      /\ DOMAIN call.res[n].Config
           = { call.res[n].FieldOrder[i] : i \in 1..Len(call.res[n].FieldOrder) }
      /\ \A i \in 1..Len(call.res[n].FieldOrder) :
           /\ call.res[n].FieldOrder[i] = LastDeclared(call.arg, n).fields[i].name
           /\ call.res[n].Config[call.res[n].FieldOrder[i]]
                = LastDeclared(call.arg, n).fields[i].val

\* web is declared labels, environment, volumes, image, container_name,
\* and its FieldOrder is that sequence
C28_Witness ==
  /\ call.fn = "GetServices"
  /\ "web" \in DOMAIN call.res
  /\ LastDeclared(call.arg, "web").fields = BodyAll
  /\ call.res["web"].FieldOrder
       = << "labels", "environment", "volumes", "image", "container_name" >>
  /\ call.res["web"].Config["environment"] = UnsortedEnv

(***************************************************************************)
(* Fixing a file of several documents                                      *)
(***************************************************************************)
\* the services of file cf that Validate reports an alphabetization
\* violation for (the special fields of the model's files hold lists)
NeedAlphabetizing(cf, c) ==
  { n \in DOMAIN GetServices(cf) :
      validateAlphabetization(n, GetServices(cf)[n], c, [env |-> << >>, lab |-> << >>])
        # << >> }

\* C29: the output of FixBytes on a file of several documents still holds
\* every service of every document with all of its fields, and every
\* service for which Validate reports an alphabetization violation, in
\* whichever document it is declared, has a change reported by the fix.
C29_AllDocumentsKept ==
  (call.fn = "FixFile" /\ ~call.res.panic) =>
    /\ \A n \in DOMAIN GetServices(call.arg.file) :
         /\ n \in DOMAIN GetServices(call.res.out)
         /\ DOMAIN GetServices(call.res.out)[n].Config
              = DOMAIN GetServices(call.arg.file)[n].Config
    /\ \A n \in NeedAlphabetizing(call.arg.file, call.arg.cfg) :
         \E i \in 1..Len(call.res.changes) : call.res.changes[i].Service = n

(***************************************************************************)
(* Exclusion patterns                                                      *)
(***************************************************************************)
\* paths, as sequences of components, on which the exclusion rule is tried
TriedPaths ==
  { << "a.yml" >>, << "b.yml" >>, << "lib", "b.yml" >>, << "test", "a.yml" >>,
    << "src", "test", "a.yml" >>, << "tests", "a.yml" >>, << "cfg", "a.yml" >>,
    << "src", "cfg", "a.yml" >>, << "vendor", "a.yml" >>, << "vendor", "lib", "a.yml" >>,
    << "test" >> }

\* the rule of C22 for one pattern
StatedMatch(p, path) ==
  \/ p.recursive /\ \E i \in 1..Len(path) : Match(p.globs, << path[i] >>)
  \/ ~p.recursive /\ Match(WholePattern(p), path)
  \/ ~p.recursive /\ Match(WholePattern(p), << path[Len(path)] >>)

StatedExcluded(exclude, path) == \E k \in 1..Len(exclude) : StatedMatch(exclude[k], path)

\* C22: IsExcluded(path) is true exactly when some exclusion pattern matches
\* the path: a pattern that starts with `**/` when a component of the path
\* matches the rest of the pattern, any other pattern when it matches the
\* whole path or its base name; without a pattern no path is excluded.  A
\* file of the run that is excluded is skipped: it is not processed, it is
\* left as it was on disk, and a run whose processed files are all valid
\* ends with exit code 0 whatever the excluded files hold.
C22_Exclusion ==
  /\ \A path \in TriedPaths : IsExcluded(cfg, path) <=> StatedExcluded(cfg.Exclude, path)
  /\ cfg.Exclude = << >> => \A path \in TriedPaths : ~IsExcluded(cfg, path)
  /\ \A k \in 1..Len(cli.log) :
       cli.log[k].status # "nomatch" =>
         (cli.log[k].status = "skipped"
            <=> StatedExcluded(cfg.Exclude, Components(cli.log[k].path)))
  /\ \A f \in DOMAIN disk :
       StatedExcluded(cfg.Exclude, Components(f)) => disk[f] = cli.disk0[f]
  /\ (cli.pc = "done" /\ cli.configOk /\ WellFormedArgs /\ EveryProcessedFileValid)
       => cli.exit = 0

\* b.yml has its fields out of order and is excluded: it was skipped, a.yml
\* was processed and found valid, and the run ended with exit code 0
C22_Witness ==
  /\ cli.pc = "done"
  /\ cli.exit = 0
  /\ "b.yml" \in DOMAIN disk
  /\ cli.disk0["b.yml"] = FileOrder
  /\ \E k \in 1..Len(cli.log) : cli.log[k].path = "b.yml" /\ cli.log[k].status = "skipped"
  /\ \E k \in 1..Len(cli.log) : cli.log[k].path = "a.yml" /\ cli.log[k].status = "valid"
  /\ IsExcluded(cfg, << "src", "test", "a.yml" >>)
  /\ ~IsExcluded(cfg, << "src", "cfg", "a.yml" >>)


(***************************************************************************)
(* Properties of loading the policy                                        *)
(***************************************************************************)
\* the settings a configuration file gives
Given(file) == DOMAIN file.data

Holding(tree) == { d \in 1..tree.cwd : tree.dirs[d] # {} }

\* the nearest of them to the working directory
Nearest(tree) == CHOOSE d \in Holding(tree) : \A e \in Holding(tree) : e <= d

\* the conventional name of highest priority in directory d
Preferred(tree, d) ==
  configFileNames[CHOOSE k \in 1..4 :
                    /\ configFileNames[k] \in tree.dirs[d]
                    /\ \A j \in 1..4 : configFileNames[j] \in tree.dirs[d] => k <= j]

LoadDone == call.fn = "Load" /\ call.res.pc = "done"

\* what Load is stated to return once the working directory is known
LoadedAsStated ==
  (LoadDone /\ call.res.err # "getwd") =>
    IF Holding(call.arg) = {}
      THEN /\ call.res.path = << >>
           /\ call.res.err = "none"
           /\ call.res.cfg = NewDefaultConfig
      ELSE /\ call.res.path
                = << Nearest(call.arg), Preferred(call.arg, Nearest(call.arg)) >>
           /\ [err |-> call.res.err, cfg |-> call.res.cfg]
                = LoadFromFile(FileAt(Nearest(call.arg),
                                      Preferred(call.arg, Nearest(call.arg))))

\* C23: Load returns what the file of highest priority in the nearest
\* directory holding a conventional file loads as, the working directory
\* first and the root last; with no such file it returns the built-in
\* defaults and no error; and a Load that has started always returns.
C23_NearestFirstAndTerminates ==
  /\ []LoadedAsStated
  /\ (call.fn = "Load") ~> LoadDone

\* Load went past an empty working directory and returned the file of a
\* parent directory that holds a file of lower priority as well
C23_Witness ==
  /\ LoadDone
  /\ call.res.err = "none"
  /\ Len(call.res.path) = 2
  /\ call.res.path[1] < call.arg.cwd
  /\ Cardinality(call.arg.dirs[call.res.path[1]]) > 1
  /\ call.res.path[2] = configFileNames[2]

====
